---- MODULE Spec2Model ----
(***************************************************************************)
(* Lot-state synchronisation engine of Cotizador_Demo: the CSV-backed and  *)
(* the database-backed source adapters (server.mjs, lib/lotesService.mjs), *)
(* the client's CSV fallback loader (App.tsx) and the seller panel         *)
(* (templates/VendedorPanel).                                              *)
(*                                                                         *)
(* JavaScript strings are sequences of one-character strings, so that      *)
(* trim, toUpperCase, parseInt, parseFloat and the regular-expression      *)
(* filters are computed character by character.  JavaScript numbers are    *)
(* exact decimals m / 10^e, kept normalised (e = 0 or m not divisible by   *)
(* 10).  A JavaScript value is a record of one fixed shape                 *)
(* [t, m, e, s] whose tag t is "undef", "null", "nan", "num" or "str".     *)
(***************************************************************************)
EXTENDS Integers, Sequences, FiniteSets, TLC

\* ------------------------------------------------------------------------
\* JavaScript values
\* ------------------------------------------------------------------------

Undef == [t |-> "undef", m |-> 0, e |-> 0, s |-> <<>>]

Null == [t |-> "null", m |-> 0, e |-> 0, s |-> <<>>]

NaN == [t |-> "nan", m |-> 0, e |-> 0, s |-> <<>>]

Str(s) == [t |-> "str", m |-> 0, e |-> 0, s |-> s]

RECURSIVE Pow10(_)
Pow10(n) == IF n = 0 THEN 1 ELSE 10 * Pow10(n - 1)

RECURSIVE NormM(_, _)
NormM(m, e) == IF e > 0 /\ m % 10 = 0 THEN NormM(m \div 10, e - 1) ELSE m

RECURSIVE NormE(_, _)
NormE(m, e) == IF e > 0 /\ m % 10 = 0 THEN NormE(m \div 10, e - 1) ELSE e

\* the number m / 10^e
Num(m, e) == [t |-> "num", m |-> NormM(m, e), e |-> NormE(m, e), s |-> <<>>]

\* value == null (loose equality: null or undefined)
IsNullish(v) == v.t \in {"undef", "null"}

\* !value
IsFalsy(v) ==
  \/ v.t \in {"undef", "null", "nan"}
  \/ v.t = "num" /\ v.m = 0
  \/ v.t = "str" /\ v.s = <<>>

\* a ?? b
Coalesce(a, b) == IF IsNullish(a) THEN b ELSE a

\* a || b
OrElse(a, b) == IF IsFalsy(a) THEN b ELSE a

\* ------------------------------------------------------------------------
\* Characters and strings
\* ------------------------------------------------------------------------

DigitChars == <<"0", "1", "2", "3", "4", "5", "6", "7", "8", "9">>

LowerChars == <<"a", "b", "c", "d", "e", "f", "g", "h", "i", "j", "k", "l", "m",
                "n", "o", "p", "q", "r", "s", "t", "u", "v", "w", "x", "y", "z">>

UpperChars == <<"A", "B", "C", "D", "E", "F", "G", "H", "I", "J", "K", "L", "M",
                "N", "O", "P", "Q", "R", "S", "T", "U", "V", "W", "X", "Y", "Z">>

IsDigit(c) == \E i \in 1..10 : DigitChars[i] = c

DigitVal(c) == (CHOOSE i \in 1..10 : DigitChars[i] = c) - 1

IsSpace(c) == c \in {" ", "\t", "\n"}

UpperChar(c) ==
  IF \E i \in 1..26 : LowerChars[i] = c
  THEN UpperChars[CHOOSE i \in 1..26 : LowerChars[i] = c]
  ELSE c

\* String.prototype.toUpperCase
ToUpperCase(s) == [i \in 1..Len(s) |-> UpperChar(s[i])]

RECURSIVE TrimStart(_)
TrimStart(s) == IF s # <<>> /\ IsSpace(s[1]) THEN TrimStart(Tail(s)) ELSE s

RECURSIVE TrimEnd(_)
TrimEnd(s) ==
  IF s # <<>> /\ IsSpace(s[Len(s)]) THEN TrimEnd(SubSeq(s, 1, Len(s) - 1)) ELSE s

\* String.prototype.trim
Trim(s) == TrimEnd(TrimStart(s))

\* the longest prefix of s made of digits
DigitPrefixLen(s) ==
  CHOOSE k \in 0..Len(s) :
    /\ \A i \in 1..k : IsDigit(s[i])
    /\ k = Len(s) \/ ~IsDigit(s[k + 1])

RECURSIVE DigitsValue(_)
DigitsValue(s) ==
  IF s = <<>> THEN 0
  ELSE 10 * DigitsValue(SubSeq(s, 1, Len(s) - 1)) + DigitVal(s[Len(s)])

RECURSIVE NatToStr(_)
NatToStr(n) ==
  IF n < 10 THEN <<DigitChars[n + 1]>>
  ELSE NatToStr(n \div 10) \o <<DigitChars[(n % 10) + 1]>>

\* String(n) for an integer n
IntToStr(n) == IF n < 0 THEN <<"-">> \o NatToStr(0 - n) ELSE NatToStr(n)

\* s.padStart(width, "0")
RECURSIVE PadStart0(_, _)
PadStart0(s, width) == IF Len(s) >= width THEN s ELSE PadStart0(<<"0">> \o s, width)

\* String(x) for a number x = m / 10^e
NumToStr(v) ==
  LET a == IF v.m < 0 THEN 0 - v.m ELSE v.m
      ip == NatToStr(a \div Pow10(v.e))
      fp == PadStart0(NatToStr(a % Pow10(v.e)), v.e)
  IN  (IF v.m < 0 THEN <<"-">> ELSE <<>>) \o ip \o (IF v.e > 0 THEN <<".">> \o fp ELSE <<>>)

\* String(value)
ToStr(v) ==
  CASE v.t = "str" -> v.s
    [] v.t = "num" -> NumToStr(v)
    [] v.t = "null" -> <<"n", "u", "l", "l">>
    [] v.t = "nan" -> <<"N", "a", "N">>
    [] OTHER -> <<"u", "n", "d", "e", "f", "i", "n", "e", "d">>

\* Number.parseInt(s, 10): an integer, or NaN
ParseInt(s) ==
  LET t == TrimStart(s)
      signed == t # <<>> /\ t[1] \in {"-", "+"}
      u == IF signed THEN Tail(t) ELSE t
      k == DigitPrefixLen(u)
      n == DigitsValue(SubSeq(u, 1, k))
  IN  IF k = 0 THEN NaN
      ELSE Num(IF signed /\ t[1] = "-" THEN 0 - n ELSE n, 0)

\* Number.parseFloat(s) on decimal notation without exponent: a number, or NaN
ParseFloat(s) ==
  LET t == TrimStart(s)
      signed == t # <<>> /\ t[1] \in {"-", "+"}
      u == IF signed THEN Tail(t) ELSE t
      k == DigitPrefixLen(u)
      rest == SubSeq(u, k + 1, Len(u))
      hasDot == rest # <<>> /\ rest[1] = "."
      f == IF hasDot THEN DigitPrefixLen(Tail(rest)) ELSE 0
      n == DigitsValue(SubSeq(u, 1, k) \o (IF hasDot THEN SubSeq(Tail(rest), 1, f) ELSE <<>>))
  IN  IF k = 0 /\ f = 0 THEN NaN
      ELSE Num(IF signed /\ t[1] = "-" THEN 0 - n ELSE n, f)

\* Number.prototype.toFixed(2); a third decimal of exactly 5 rounds away from zero
ToFixed2(v) ==
  LET a == IF v.m < 0 THEN 0 - v.m ELSE v.m
      cents == IF v.e <= 2 THEN a * Pow10(2 - v.e)
               ELSE (a + (Pow10(v.e - 2) \div 2)) \div Pow10(v.e - 2)
  IN  (IF v.m < 0 THEN <<"-">> ELSE <<>>)
        \o NatToStr(cents \div 100) \o <<".">> \o PadStart0(NatToStr(cents % 100), 2)

\* s.replace(/[^\d.,-]/g, "")
RECURSIVE KeepNumeric(_)
KeepNumeric(s) ==
  IF s = <<>> THEN <<>>
  ELSE IF IsDigit(s[1]) \/ s[1] \in {".", ",", "-"}
       THEN <<s[1]>> \o KeepNumeric(Tail(s))
       ELSE KeepNumeric(Tail(s))

\* s.replace(",", r): only the first comma is replaced
ReplaceFirstComma(s, r) ==
  IF \E i \in 1..Len(s) : s[i] = ","
  THEN LET i == CHOOSE j \in 1..Len(s) : s[j] = "," /\ \A k \in 1..(j - 1) : s[k] # ","
       IN  SubSeq(s, 1, i - 1) \o r \o SubSeq(s, i + 1, Len(s))
  ELSE s

\* ------------------------------------------------------------------------
\* Identifier and normalisation module of the CSV server (server.mjs)
\* ------------------------------------------------------------------------

sLIBRE == <<"L", "I", "B", "R", "E">>

sSEPARADO == <<"S", "E", "P", "A", "R", "A", "D", "O">>

sVENDIDO == <<"V", "E", "N", "D", "I", "D", "O">>

ALLOWED_STATUS == {sLIBRE, sSEPARADO, sVENDIDO}

cleanNumber(value) ==
  IF IsFalsy(value) THEN Null
  ELSE LET normalized == ReplaceFirstComma(KeepNumeric(ToStr(value)), <<>>)
           parsed == ParseFloat(normalized)
       IN  IF parsed.t = "num" THEN parsed ELSE Null

normalizeStatus(value) ==
  LET normalized == ToUpperCase(Trim(ToStr(OrElse(value, Str(sLIBRE)))))
  IN  IF normalized \in ALLOWED_STATUS THEN normalized ELSE sLIBRE

toLoteId(mz, lote) == mz \o <<"-">> \o PadStart0(IntToStr(lote), 2)

formatReal(value) ==
  IF IsNullish(value) \/ value.t = "nan" THEN <<>> ELSE ToFixed2(value)

normalizeText(value) == Trim(ToStr(Coalesce(value, Str(<<>>))))

\* a text, or undefined when it is empty: text || undefined
TextOrUndef(s) == IF s = <<>> THEN Undef ELSE Str(s)

\* the seconds of one day on the adapter's clock, as "dd-mmm-aa hh:mi:ss"
toCurrentTimestamp(clock) ==
  LET hh == PadStart0(NatToStr((clock \div 3600) % 24), 2)
      mi == PadStart0(NatToStr((clock \div 60) % 60), 2)
      ss == PadStart0(NatToStr(clock % 60), 2)
  IN  <<"0", "5", "-", "n", "o", "v", "-", "2", "6", " ">>
        \o hh \o <<":">> \o mi \o <<":">> \o ss

\* the guard of mapRowToLote: a row without MZ or with an unparsable LOTE is dropped
RowHasKey(row) ==
  /\ ToUpperCase(normalizeText(Str(row.MZ))) # <<>>
  /\ ParseInt(normalizeText(Str(row.LOTE))).t = "num"

mapRowToLote(row) ==
  LET mz == ToUpperCase(normalizeText(Str(row.MZ)))
      lote == ParseInt(normalizeText(Str(row.LOTE))).m
  IN  [id |-> toLoteId(mz, lote),
       mz |-> mz,
       lote |-> lote,
       areaM2 |-> cleanNumber(Str(row.AREA)),
       price |-> cleanNumber(Str(row.PRECIO)),
       condicion |-> normalizeStatus(Str(row.CONDICION)),
       asesor |-> TextOrUndef(normalizeText(Str(row.ASESOR))),
       cliente |-> TextOrUndef(normalizeText(Str(row.CLIENTE))),
       comentario |-> TextOrUndef(normalizeText(Str(row.COMENTARIO))),
       ultimaModificacion |-> TextOrUndef(normalizeText(Str(row.ULTIMA_MODIFICACION)))]

\* the list with a slip: the mapping stops at the first row without a key
csvListUntilInvalid(rows) ==
  LET stop == IF \A i \in 1..Len(rows) : RowHasKey(rows[i]) THEN Len(rows) + 1
              ELSE CHOOSE i \in 1..Len(rows) :
                     ~RowHasKey(rows[i]) /\ \A j \in 1..(i - 1) : RowHasKey(rows[j])
  IN  [i \in 1..(stop - 1) |-> mapRowToLote(rows[i])]

\* GET /api/lotes of the CSV server: rows.map(mapRowToLote).filter(Boolean)
csvList(rows) ==
  LET kept == SelectSeq(rows, RowHasKey)
  IN  [i \in 1..Len(kept) |-> mapRowToLote(kept[i])]

\* findIndex with a plausible slip: a miss falls back to the first row
findIndexOrFirst(rows, loteId) ==
  LET hit(i) ==
        LET mz == ToUpperCase(normalizeText(Str(rows[i].MZ)))
            lote == ParseInt(normalizeText(Str(rows[i].LOTE)))
        IN  mz # <<>> /\ lote.t = "num" /\ toLoteId(mz, lote.m) = loteId
  IN  IF \E i \in 1..Len(rows) : hit(i)
      THEN CHOOSE i \in 1..Len(rows) : hit(i) /\ \A j \in 1..(i - 1) : ~hit(j)
      ELSE IF rows = <<>> THEN 0 ELSE 1

\* rows.findIndex(...) of the PUT handler; 0 stands for -1
findIndex(rows, loteId) ==
  LET hit(i) ==
        LET mz == ToUpperCase(normalizeText(Str(rows[i].MZ)))
            lote == ParseInt(normalizeText(Str(rows[i].LOTE)))
        IN  mz # <<>> /\ lote.t = "num" /\ toLoteId(mz, lote.m) = loteId
  IN  IF \E i \in 1..Len(rows) : hit(i)
      THEN CHOOSE i \in 1..Len(rows) : hit(i) /\ \A j \in 1..(i - 1) : ~hit(j)
      ELSE 0

\* the row of the PUT handler after its assignments
patchRow(row, payload, clock) ==
  LET r1 == [row EXCEPT
               !.CONDICION = normalizeStatus(Coalesce(payload.estado, Str(row.CONDICION))),
               !.ASESOR = normalizeText(Coalesce(payload.asesor, Str(row.ASESOR))),
               !.CLIENTE = normalizeText(Coalesce(payload.cliente, Str(row.CLIENTE))),
               !.COMENTARIO = normalizeText(Coalesce(payload.comentario, Str(row.COMENTARIO))),
               !.ULTIMA_MODIFICACION = toCurrentTimestamp(clock)]
  IN  IF payload.price.t # "undef"
      THEN LET price == cleanNumber(payload.price)
           IN  [r1 EXCEPT !.PRECIO = IF IsNullish(price) THEN <<>> ELSE formatReal(price)]
      ELSE r1

\* req.params.id as the PUT handler compares it
csvLoteId(id) == ToUpperCase(normalizeText(Str(id)))

\* ------------------------------------------------------------------------
\* Database-backed adapter (lib/lotesService.mjs), table public.lotes and the
\* seed script that fills it
\* ------------------------------------------------------------------------

cleanNumberService(value) ==
  IF IsNullish(value) \/ value = Str(<<>>) THEN Null
  ELSE LET normalized == ReplaceFirstComma(KeepNumeric(ToStr(value)), <<".">>)
           parsed == ParseFloat(normalized)
       IN  IF parsed.t = "num" THEN parsed ELSE Null

normalizeStatusService(value) ==
  LET normalized == ToUpperCase(Trim(ToStr(OrElse(value, Str(sLIBRE)))))
  IN  IF normalized \in ALLOWED_STATUS THEN normalized ELSE sLIBRE

normalizeTextService(value) == Trim(ToStr(Coalesce(value, Str(<<>>))))

toLoteIdService(mz, lote) == ToUpperCase(Trim(mz)) \o <<"-">> \o PadStart0(IntToStr(lote), 2)

\* a value stored in a numeric(p,2) column: rounded to two decimals
Numeric2(v) == IF v.t = "num" THEN ParseFloat(ToFixed2(v)) ELSE Null

mapDbRowToLote(row) ==
  [id |-> row.id,
   mz |-> row.mz,
   lote |-> row.lote,
   areaM2 |-> row.area,
   price |-> row.precio,
   condicion |-> normalizeStatusService(Str(row.condicion)),
   asesor |-> OrElse(row.asesor, Undef),
   cliente |-> OrElse(row.cliente, Undef),
   comentario |-> OrElse(row.comentario, Undef),
   ultimaModificacion |-> OrElse(row.ultima_modificacion, Undef)]

\* the order of characters in the collation of the text columns
CollationOrder == <<" ", ",", "-", ".">> \o DigitChars \o UpperChars \o LowerChars

CharRank(c) ==
  IF \E i \in 1..Len(CollationOrder) : CollationOrder[i] = c
  THEN CHOOSE i \in 1..Len(CollationOrder) : CollationOrder[i] = c
  ELSE 0

RECURSIVE TextLess(_, _)
TextLess(a, b) ==
  IF b = <<>> THEN FALSE
  ELSE IF a = <<>> THEN TRUE
  ELSE IF a[1] = b[1] THEN TextLess(Tail(a), Tail(b))
  ELSE CharRank(a[1]) < CharRank(b[1])

\* .order("mz", { ascending: true }).order("lote", { ascending: true })
OrderByMzLote(r1, r2) == TextLess(r1.mz, r2.mz) \/ (r1.mz = r2.mz /\ r1.lote < r2.lote)

\* listLotes
listLotes(table) ==
  LET data == SortSeq(table, OrderByMzLote)
  IN  [i \in 1..Len(data) |-> mapDbRowToLote(data[i])]

\* the id that updateLoteById hands to .eq("id", ...)
serviceLoteId(loteId) == ToUpperCase(Trim(ToStr(OrElse(Str(loteId), Str(<<>>)))))

\* the row after .update(patch): every column of the patch is assigned
servicePatchRow(row, payload, clock) ==
  LET r1 == [row EXCEPT
               !.condicion = normalizeStatusService(payload.estado),
               !.asesor = Str(normalizeTextService(payload.asesor)),
               !.cliente = Str(normalizeTextService(payload.cliente)),
               !.comentario = Str(normalizeTextService(payload.comentario)),
               !.ultima_modificacion = Str(toCurrentTimestamp(clock))]
  IN  IF payload.price.t # "undef"
      THEN [r1 EXCEPT !.precio = Numeric2(cleanNumberService(payload.price))]
      ELSE r1

\* the table after the single UPDATE ... WHERE id = ... statement of updateLoteById
dbUpdate(table, loteId, payload, clock) ==
  [i \in 1..Len(table) |->
     IF table[i].id = serviceLoteId(loteId)
     THEN servicePatchRow(table[i], payload, clock)
     ELSE table[i]]

\* the data of .maybeSingle(): whether a row was updated
dbMatches(table, loteId) == \E i \in 1..Len(table) : table[i].id = serviceLoteId(loteId)

\* updateLoteById's result when a row was updated: mapDbRowToLote(data)
updateLoteByIdItem(table, loteId, payload, clock) ==
  LET i == CHOOSE j \in 1..Len(table) : table[j].id = serviceLoteId(loteId)
  IN  mapDbRowToLote(servicePatchRow(table[i], payload, clock))

cleanNumberSeed(value) ==
  IF IsNullish(value) \/ value = Str(<<>>) THEN Null
  ELSE LET normalized == ReplaceFirstComma(KeepNumeric(ToStr(value)), <<".">>)
           parsed == ParseFloat(normalized)
       IN  IF parsed.t = "num" THEN parsed ELSE Null

normalizeStatusSeed(value) ==
  LET normalized == ToUpperCase(Trim(ToStr(OrElse(value, Str(sLIBRE)))))
  IN  IF normalized = sSEPARADO \/ normalized = sVENDIDO THEN normalized ELSE sLIBRE

normalizeTextSeed(value) == Trim(ToStr(Coalesce(value, Str(<<>>))))

\* the guard of the seed script's row mapping
SeedRowHasKey(row) ==
  /\ ToUpperCase(normalizeTextSeed(Str(row.MZ))) # <<>>
  /\ ParseInt(normalizeTextSeed(Str(row.LOTE))).t = "num"

\* one mapped row of the seed script, as the table stores it
seedRow(row) ==
  LET mz == ToUpperCase(normalizeTextSeed(Str(row.MZ)))
      lote == ParseInt(normalizeTextSeed(Str(row.LOTE))).m
  IN  [id |-> toLoteIdService(mz, lote),
       mz |-> mz,
       lote |-> lote,
       area |-> Numeric2(cleanNumberSeed(Str(row.AREA))),
       precio |-> Numeric2(cleanNumberSeed(Str(row.PRECIO))),
       condicion |-> normalizeStatusSeed(Str(row.CONDICION)),
       asesor |-> Str(normalizeTextSeed(Str(row.ASESOR))),
       cliente |-> Str(normalizeTextSeed(Str(row.CLIENTE))),
       comentario |-> Str(normalizeTextSeed(Str(row.COMENTARIO))),
       ultima_modificacion |-> Str(normalizeTextSeed(Str(row.ULTIMA_MODIFICACION)))]

\* the table after the seed script ran on an empty table with one batch: the
\* upsert of a batch that holds one id twice is rejected as a whole by the
\* primary key (id) and the unique index (mz, lote)
seedTable(rows) ==
  LET kept == SelectSeq(rows, SeedRowHasKey)
      mapped == [i \in 1..Len(kept) |-> seedRow(kept[i])]
  IN  IF \E i, j \in 1..Len(mapped) : i # j /\ mapped[i].id = mapped[j].id
      THEN <<>>
      ELSE mapped

\* ------------------------------------------------------------------------
\* Client (App.tsx): the CSV fallback loader
\* ------------------------------------------------------------------------

cleanNumberApp(value) ==
  IF IsFalsy(value) THEN Null
  ELSE LET normalized == ReplaceFirstComma(KeepNumeric(ToStr(value)), <<>>)
           parsed == ParseFloat(normalized)
       IN  IF parsed.t = "num" THEN parsed ELSE Null

toLoteIdApp(mz, lote) == mz \o <<"-">> \o PadStart0(IntToStr(lote), 2)

\* the guard of the flatMap callback of loadLotesFromCsvFallback
FallbackRowHasKey(row) ==
  /\ ToUpperCase(Trim(row.MZ)) # <<>>
  /\ ParseInt(Trim(row.LOTE)).t = "num"

fallbackRowToLote(row) ==
  LET mz == ToUpperCase(Trim(row.MZ))
      lote == ParseInt(Trim(row.LOTE)).m
      condicion == ToUpperCase(Trim(ToStr(OrElse(Str(row.CONDICION), Str(sLIBRE)))))
  IN  [id |-> toLoteIdApp(mz, lote),
       mz |-> mz,
       lote |-> lote,
       areaM2 |-> cleanNumberApp(Str(row.AREA)),
       price |-> cleanNumberApp(Str(row.PRECIO)),
       condicion |-> IF condicion = <<>> THEN sLIBRE ELSE condicion,
       asesor |-> TextOrUndef(Trim(row.ASESOR)),
       cliente |-> TextOrUndef(Trim(row.CLIENTE)),
       comentario |-> TextOrUndef(Trim(row.COMENTARIO)),
       ultimaModificacion |-> TextOrUndef(Trim(row.ULTIMA_MODIFICACION))]

loadLotesFromCsvFallback(rows) ==
  LET kept == SelectSeq(rows, FallbackRowHasKey)
  IN  [i \in 1..Len(kept) |-> fallbackRowToLote(kept[i])]

\* ------------------------------------------------------------------------
\* Bounds and input sets
\* ------------------------------------------------------------------------

\* number of requests of one behaviour of the sequential specification
MaxOps == 2

\* seconds that the adapter's clock may advance
MaxClock == 1

CsvRow(mz, lote, area, precio, condicion, asesor, cliente, comentario) ==
  [MZ |-> mz, LOTE |-> lote, AREA |-> area, PRECIO |-> precio, CONDICION |-> condicion,
   ASESOR |-> asesor, CLIENTE |-> cliente, COMENTARIO |-> comentario,
   ULTIMA_MODIFICACION |-> <<>>]

\* MZ=A, LOTE=7, AREA=120.50, PRECIO=45000, CONDICION=libre
RowA7 ==
  CsvRow(<<"A">>, <<"7">>, <<"1", "2", "0", ".", "5", "0">>, <<"4", "5", "0", "0", "0">>,
         <<"l", "i", "b", "r", "e">>, <<>>, <<>>, <<>>)

\* MZ="b ", LOTE=12, PRECIO="1,234.50", CONDICION=VENDIDO, with advisor, client and comment
RowB12 ==
  CsvRow(<<"b", " ">>, <<"1", "2">>, <<>>, <<"1", ",", "2", "3", "4", ".", "5", "0">>,
         sVENDIDO, <<"L", "u", "i", "s">>, <<" ", "A", "n", "a">>, <<"o", "k">>)

\* a row without LOTE
RowNoLote ==
  CsvRow(<<"C">>, <<>>, <<"9", "0">>, <<"1", "0", "0">>, sLIBRE, <<>>, <<>>, <<>>)

\* a second row of parcel (A, 7), written "a", "07", with a status outside the enumeration
RowA7Again ==
  CsvRow(<<"a">>, <<"0", "7">>, <<"8", "0">>, <<"3", "0", "0">>,
         <<"r", "e", "s", "e", "r", "v", "a", "d", "o">>, <<>>, <<"E", "v", "a">>, <<>>)

\* the contents of public/assets/lotes.csv when the system starts
InitialFiles ==
  {<<RowA7, RowB12>>, <<RowA7, RowNoLote, RowB12>>, <<RowA7, RowB12, RowA7Again>>}

Payload(estado, asesor, cliente, comentario, price) ==
  [estado |-> estado, asesor |-> asesor, cliente |-> cliente, comentario |-> comentario,
   price |-> price]

NoPayload == Payload(Undef, Undef, Undef, Undef, Undef)

\* request bodies of PUT /api/lotes/{id}
Payloads ==
  {Payload(Str(sSEPARADO), Undef, Str(<<"J", "u", "a", "n", " ", "P", "e", "r", "e", "z">>),
           Undef, Undef),
   Payload(Undef, Str(<<" ", "E", "v", "a", " ">>), Undef, Undef, Undef),
   Payload(Undef, Undef, Undef, Undef, Num(0, 0)),
   Payload(Undef, Undef, Undef, Str(<<>>), Null),
   Payload(Str(<<"x">>), Undef, Undef, Undef, Num(12345, 1)),
   Payload(Str(sVENDIDO), Str(<<>>), Str(<<>>), Str(<<>>), Num(500, 0)),
   Payload(Undef, Undef, Undef, Undef, Num(0 - 5, 0))}

\* the {id} of the request path
RequestIds ==
  {<<" ", "a", "-", "0", "7">>, <<"B", "-", "1", "2">>, <<"Z", "-", "9", "9">>}

\* number of PUT requests that run concurrently
MaxCalls == 2

\* the contents of lotes.csv under the concurrent requests
ConcFiles == {<<RowA7, RowNoLote, RowB12>>}

\* request bodies of the concurrent PUT requests
ConcPayloads ==
  {Payload(Str(sSEPARADO), Undef, Str(<<"J", "u", "a", "n", " ", "P", "e", "r", "e", "z">>),
           Undef, Undef),
   Payload(Undef, Undef, Undef, Undef, Num(500, 0))}

\* number of saveRow calls of one behaviour of the seller panel
MaxSaves == 3

\* number of loadRows calls of one behaviour of the seller panel
MaxLoads == 1

\* the contents of lotes.csv behind the seller panel
PanelFiles == {<<RowA7, RowB12>>}

\* the ids of the lots of the seller panel
PanelIds == {<<"A", "-", "0", "7">>, <<"B", "-", "1", "2">>}

\* what the seller types: a lot, a field of its row and the new value
Edits ==
  {<<<<"A", "-", "0", "7">>, "price", <<"5", "0", "0">>>>,
   <<<<"A", "-", "0", "7">>, "price", <<"4", "5", "0", "0", "0">>>>,
   <<<<"B", "-", "1", "2">>, "estado", sSEPARADO>>}

\* ------------------------------------------------------------------------
\* Current App: the quick quote and the proforma
\* ------------------------------------------------------------------------

Abs(x) == IF x < 0 THEN 0 - x ELSE x

RECURSIVE GCD(_, _)
GCD(a, b) == IF b = 0 THEN a ELSE GCD(b, a % b)

\* a finite JavaScript number of the quote and the proforma, kept as the
\* exact fraction n / d in lowest terms
Q(n, d) ==
  LET g == GCD(Abs(n), d)
  IN  [n |-> IF n < 0 THEN 0 - (Abs(n) \div g) ELSE n \div g, d |-> d \div g]

Whole(n) == Q(n, 1)

\* the number of a value of the lot list
FromNum(v) == Q(v.m, Pow10(v.e))

Plus(a, b) == Q(a.n * b.d + b.n * a.d, a.d * b.d)

Minus(a, b) == Q(a.n * b.d - b.n * a.d, a.d * b.d)

Times(a, b) == Q(a.n * b.n, a.d * b.d)

\* a / b for b other than 0
Over(a, b) == IF b.n < 0 THEN Q(0 - (a.n * b.d), a.d * (0 - b.n)) ELSE Q(a.n * b.d, a.d * b.n)

Less(a, b) == a.n * b.d < b.n * a.d

\* Math.max and Math.min
MathMax(a, b) == IF Less(a, b) THEN b ELSE a

MathMin(a, b) == IF Less(b, a) THEN b ELSE a

\* Math.round: the nearest integer, halves upwards
MathRound(a) == Whole((2 * a.n + a.d) \div (2 * a.d))

\* a clamp without its upper end
clampLowerOnly(value, min, max) == MathMax(value, min)

clamp(value, min, max) == MathMin(MathMax(value, min), max)

\* Number(event.target.value || 0) of an input of type number
inputNumber(text) == IF text = <<>> THEN Whole(0) ELSE FromNum(ParseFloat(text))

\* QuoteState
Quote(precio, inicialMonto, cuotas) ==
  [precio |-> precio, inicialMonto |-> inicialMonto, cuotas |-> cuotas]

defaultQuote == Quote(Whole(0), Whole(6000), Whole(24))

\* quoteMonthly with interesAnual 0
quoteMonthly(monto, cuotas) ==
  IF ~Less(Whole(0), cuotas) THEN Whole(0) ELSE Over(monto, cuotas)

\* the down payment, the financed amount and the instalment of the quick quote
montoInicial(q) == MathMin(q.inicialMonto, q.precio)

financiado(q) == MathMax(Minus(q.precio, montoInicial(q)), Whole(0))

cuota(q) == quoteMonthly(financiado(q), q.cuotas)

\* the day of the clock, the days forgotten
fechaCaducidadToday(clock, days) == clock \div 86400

\* toDateValue(addDays(new Date(), days)): the day of the clock, in days since
\* its start, plus the days
fechaCaducidad(clock, days) == (clock \div 86400) + days

\* ProformaState: the client's name stands for the text fields
Proforma(nombre, mz, lote, precioRegular, precioPromocional, descuentoSoles, descuentoPct,
         diasVigencia, caduca, separacion, inicial, meses, creadoEn) ==
  [nombre |-> nombre, mz |-> mz, lote |-> lote, precioRegular |-> precioRegular,
   precioPromocional |-> precioPromocional, descuentoSoles |-> descuentoSoles,
   descuentoPct |-> descuentoPct, diasVigencia |-> diasVigencia,
   fechaCaducidad |-> caduca, separacion |-> separacion, inicial |-> inicial,
   meses |-> meses, creadoEn |-> creadoEn]

\* the proforma of useState
emptyProforma(clock) ==
  Proforma(<<>>, <<>>, <<>>, Whole(0), Whole(0), Whole(0), Whole(0), Whole(3),
           fechaCaducidad(clock, 3), Whole(0), Whole(6000), Whole(24), clock)

\* refreshProformaFromLote: the proforma of a lot
refreshProformaFromLote(lote, clock) ==
  LET regular == IF IsNullish(lote.price) THEN Whole(0) ELSE FromNum(lote.price)
      promo == regular
      inicial == clamp(Whole(6000), Whole(6000), IF promo.n = 0 THEN Whole(6000) ELSE promo)
      dias == 3
  IN  Proforma(<<>>, lote.mz, IntToStr(lote.lote), regular, promo,
               MathMax(Minus(regular, promo), Whole(0)),
               IF regular.n # 0
               THEN MathMax(Times(Over(Minus(regular, promo), regular), Whole(100)), Whole(0))
               ELSE Whole(0),
               Whole(dias), fechaCaducidad(clock, dias), Whole(0), inicial, Whole(24), clock)

\* recalcProforma: the draft with its prices reconciled from the field edited
\* last and its other numbers brought into range
recalcProforma(draft, edited, clock) ==
  LET regular == MathMax(draft.precioRegular, Whole(0))
      promo0 == MathMax(draft.precioPromocional, Whole(0))
      soles0 == MathMax(draft.descuentoSoles, Whole(0))
      pct0 == MathMax(draft.descuentoPct, Whole(0))
      soles == CASE edited = "soles" -> clamp(soles0, Whole(0), regular)
                 [] edited = "pct" -> Times(Over(clamp(pct0, Whole(0), Whole(100)), Whole(100)), regular)
                 [] OTHER -> MathMax(Minus(regular, clamp(promo0, Whole(0), regular)), Whole(0))
      pct == IF edited = "pct" THEN clamp(pct0, Whole(0), Whole(100))
             ELSE IF regular.n # 0 THEN Times(Over(soles, regular), Whole(100)) ELSE Whole(0)
      promo == IF edited \in {"soles", "pct"}
               THEN MathMax(Minus(regular, soles), Whole(0))
               ELSE clamp(promo0, Whole(0), regular)
      dias == clamp(MathRound(draft.diasVigencia), Whole(1), Whole(30))
      meses == clamp(MathRound(IF draft.meses.n = 0 THEN Whole(1) ELSE draft.meses),
                     Whole(1), Whole(36))
  IN  [draft EXCEPT
         !.precioRegular = regular,
         !.precioPromocional = promo,
         !.descuentoSoles = soles,
         !.descuentoPct = pct,
         !.diasVigencia = dias,
         !.fechaCaducidad = fechaCaducidad(clock, dias.n),
         !.separacion = MathMax(draft.separacion, Whole(0)),
         !.inicial = MathMax(draft.inicial, Whole(6000)),
         !.meses = meses]

\* number of updateProforma calls of one behaviour of the current App
MaxEdits == 2

\* number of midnights that pass while the current App is open
MaxDays == 1

\* lots priced 50000, 3000, not at all and -5
RowD1 == CsvRow(<<"D">>, <<"1">>, <<"9", "0">>, <<"5", "0", "0", "0", "0">>, sLIBRE, <<>>, <<>>, <<>>)

RowD2 == CsvRow(<<"D">>, <<"2">>, <<"9", "0">>, <<"3", "0", "0", "0">>, sLIBRE, <<>>, <<>>, <<>>)

RowD3 == CsvRow(<<"D">>, <<"3">>, <<"9", "0">>, <<>>, sSEPARADO, <<>>, <<>>, <<>>)

RowD4 == CsvRow(<<"D">>, <<"4">>, <<"9", "0">>, <<"-", "5">>, sLIBRE, <<>>, <<>>, <<>>)

\* the contents of lotes.csv behind the current App
ProformaFiles == {<<RowD1, RowD2, RowD3, RowD4, RowB12>>}

\* the contents of lotes.csv behind the current App left open over midnight
ExpiryFiles == {<<RowD1, RowB12>>}

\* what the user types into the number inputs of the quote and the proforma
SolesInputs == {<<"1", "0", "0", "0">>, <<"9", "9", "9", "9", "9">>}

PctInputs == {<<"5", "0">>, <<"1", "5", "0">>}

PromoInputs == {<<"2", "0", "0", "0">>, <<"-", "1">>}

InicialInputs == {<<>>, <<"7", "0", "0", "0">>}

SeparacionInputs == {<<"5", "0", "0">>}

MesesInputs == {<<>>, <<"1", "2">>}

DiasInputs == {<<>>, <<"4", "5">>, <<"2", ".", "5">>}

NombreInputs == {<<"A", "n", "a">>}

\* number of updateOverride calls of one behaviour of the legacy App
MaxWrites == 2

\* the browser tabs that show the legacy App
Tabs == {1, 2}

\* the ids that override maps are keyed by; Z-99 is no lot of the file
OverrideIds ==
  {<<"A", "-", "0", "7">>, <<"B", "-", "1", "2">>, <<"Z", "-", "9", "9">>}

\* LoteOverride: a field is Undef where the object has no such key
Override(price, condicion, cliente) ==
  [price |-> price, condicion |-> condicion, cliente |-> cliente]

NoOverride == Override(Undef, Undef, Undef)

\* the override map {}
NoOverrides == [id \in OverrideIds |-> NoOverride]

\* an item of local storage: kind is "none" where getItem returns null,
\* "json" where the text parses to map, "text" where JSON.parse throws
Item(kind, map) == [kind |-> kind, map |-> map]

NoItem == Item("none", NoOverrides)

\* what local storage holds under OVERRIDES_KEY when the first tab opens
InitialStores ==
  {NoItem,
   Item("text", NoOverrides),
   Item("json", [NoOverrides EXCEPT
                   ![<<"A", "-", "0", "7">>] = Override(Null, Undef, Str(<<"A", "n", "a">>)),
                   ![<<"Z", "-", "9", "9">>] = Override(Null, Str(sVENDIDO), Undef)])}

\* the text of the price input of the seller table of the legacy App
PriceInputs == {<<"5", "0", "0">>}

\* ------------------------------------------------------------------------
\* State
\* ------------------------------------------------------------------------

VARIABLES
  backend,    \* which server entry point runs: "csv" (server.mjs) or "db" (Supabase)
  csvRows,    \* the rows of public/assets/lotes.csv
  dbTable,    \* the rows of table public.lotes
  now,        \* the adapter's clock, in seconds
  ops,        \* number of requests served so far
  last,       \* the last request and its response
  list0,      \* list() when the system started
  calls,      \* the PUT requests that run concurrently, each with its position
  written,    \* the calls in the order in which their write reached the store
  got,        \* id, mz, lote and areaM2 of the lots of the last concurrent GET
  rows,       \* VendedorPanel: the lots it shows (useState rows)
  drafts,     \* VendedorPanel: the unsaved edits, by lot id
  savingId,   \* VendedorPanel: the lot whose save control is disabled
  notice,     \* VendedorPanel: the lot named by the "guardado" notice
  error,      \* VendedorPanel: the error message
  loading,    \* VendedorPanel: the list is loading
  saves,      \* VendedorPanel: its PUT requests, each with its position
  loads,      \* VendedorPanel: its GET requests, each with its position
  tabOpen,    \* legacy App: the tabs whose App has mounted
  overrides,  \* legacy App: the override map of each tab (useState overrides)
  rawLotes,   \* legacy App: the canonical list of each tab (useState rawLotes)
  signals,    \* legacy App: storage events and channel messages not yet delivered, by tab
  hasChannel, \* legacy App: the browser offers BroadcastChannel
  stored,     \* local storage: the item of OVERRIDES_KEY
  history,    \* local storage: the lines of HISTORY_KEY, newest first
  overrideWrites, \* legacy App: number of override writes so far
  appLotes,   \* current App: the lots it shows (useState rawLotes)
  selectedId, \* current App: the id of the selected lot
  quote,      \* current App: the quick quote (useState quote)
  proforma,   \* current App: the proforma (useState proforma)
  lastPriceEdited, \* current App: lastPriceEditedRef.current
  proformaOpen,    \* current App: the proforma modal is shown
  proformaDirty,   \* current App: the proforma has unsaved edits
  proformaConfirmClose, \* current App: the discard dialog is shown
  edits,      \* current App: number of updateProforma calls so far
  lastInput,  \* current App: the input changed last, and the text typed
  http,       \* the last HTTP request as its entry point served it
  idArgs,     \* the (mz, lote) handed to toLoteId
  ids         \* the string each toLoteId returned for idArgs, by implementation

vars ==
  <<backend, csvRows, dbTable, now, ops, last, list0, calls, written, got,
    rows, drafts, savingId, notice, error, loading, saves, loads,
    tabOpen, overrides, rawLotes, signals, hasChannel, stored, history, overrideWrites,
    appLotes, selectedId, quote, proforma, lastPriceEdited, proformaOpen,
    proformaDirty, proformaConfirmClose, edits, lastInput, http, idArgs, ids>>

\* the last request and the identifiers derived
edgeVars == <<http, idArgs, ids>>

\* the variables of the current App
appVars ==
  <<appLotes, selectedId, quote, proforma, lastPriceEdited, proformaOpen,
    proformaDirty, proformaConfirmClose, edits, lastInput>>

\* the variables of the tabs of the legacy App and of their local storage
tabVars == <<tabOpen, overrides, rawLotes, signals, hasChannel, stored, history, overrideWrites>>

\* the variables of the seller panel
panelVars == <<rows, drafts, savingId, notice, error, loading, saves, loads>>

\* the variables of the concurrent requests
concVars == <<calls, written, got>>

NoLote ==
  [id |-> <<>>, mz |-> <<>>, lote |-> 0, areaM2 |-> Null, price |-> Null,
   condicion |-> <<>>, asesor |-> Undef, cliente |-> Undef, comentario |-> Undef,
   ultimaModificacion |-> Undef]

\* a request and its response: pre is list() just before the request was served
Exchange(op, id, payload, status, item, items, pre) ==
  [op |-> op, id |-> id, payload |-> payload, status |-> status, item |-> item,
   items |-> items, pre |-> pre]

\* a concurrent PUT: pc is "idle" before the request arrives, "write" while the
\* CSV handler awaits writeCsvState, "sent" while updateLoteById awaits the
\* database, "done" after the response; snap is the stored rows as the handler
\* found them, clock the time of its toCurrentTimestamp()
Call(pc, id, payload, snap, clock, status) ==
  [pc |-> pc, id |-> id, payload |-> payload, snap |-> snap, clock |-> clock,
   status |-> status]

IdleCall == Call("idle", <<>>, NoPayload, <<>>, 0, 0)

\* EditableFields of VendedorPanel; has is FALSE where drafts holds no entry
Draft(has, price, asesor, estado, cliente, comentario) ==
  [has |-> has, price |-> price, asesor |-> asesor, estado |-> estado,
   cliente |-> cliente, comentario |-> comentario]

NoDraft == Draft(FALSE, <<>>, <<>>, <<>>, <<>>, <<>>)

\* the message of the panel: none, a failed load, or a failed save of a lot
Err(kind, id) == [kind |-> kind, id |-> id]

\* a PUT of the panel: pc is "idle" before saveRow, "sent" until the server
\* has handled it, "answered" until the response resolves, then "done", when
\* nothing of it is kept
Save(pc, id, body, ok, item) ==
  [pc |-> pc, id |-> id, body |-> body, ok |-> ok, item |-> item]

IdleSave == Save("idle", <<>>, NoPayload, FALSE, NoLote)

\* a GET of the panel, with the same positions
Load(pc, ok, items) == [pc |-> pc, ok |-> ok, items |-> items]

IdleLoad == Load("idle", FALSE, <<>>)

\* list() of the running backend
List == IF backend = "csv" THEN csvList(csvRows) ELSE listLotes(dbTable)

\* the servers and the seller panel after construction
InitApi(files) ==
  /\ backend \in {"csv", "db"}
  /\ csvRows \in files
  /\ dbTable = IF backend = "db" THEN seedTable(csvRows) ELSE <<>>
  /\ now = 0
  /\ ops = 0
  /\ last = Exchange("none", <<>>, NoPayload, 0, NoLote, <<>>, <<>>)
  /\ list0 = List
  /\ calls = [c \in 1..MaxCalls |-> IdleCall]
  /\ written = <<>>
  /\ got = <<>>
  /\ rows = <<>>
  /\ drafts = [id \in PanelIds |-> NoDraft]
  /\ savingId = <<>>
  /\ notice = <<>>
  /\ error = Err("none", <<>>)
  /\ loading = TRUE
  /\ saves = [k \in 1..MaxSaves |-> IdleSave]
  /\ loads = [k \in 1..MaxLoads |-> IdleLoad]

\* no tab of the legacy App is open; local storage holds one of the given items
InitOverrides(stores, channels, logs) ==
  /\ tabOpen = [t \in Tabs |-> FALSE]
  /\ overrides = [t \in Tabs |-> NoOverrides]
  /\ rawLotes = [t \in Tabs |-> <<>>]
  /\ signals = [t \in Tabs |-> 0]
  /\ hasChannel \in channels
  /\ stored \in stores
  /\ history \in logs
  /\ overrideWrites = 0

\* an input of the user: a field of the proforma and the text typed into it,
\* or a key
Input(field, text) == [field |-> field, text |-> text]

\* the current App after construction: nothing loaded, nothing selected, the
\* default quote and the empty proforma
InitApp ==
  /\ appLotes = <<>>
  /\ selectedId = <<>>
  /\ quote = defaultQuote
  /\ proforma = emptyProforma(now)
  /\ lastPriceEdited = "none"
  /\ proformaOpen = FALSE
  /\ proformaDirty = FALSE
  /\ proformaConfirmClose = FALSE
  /\ edits = 0
  /\ lastInput = Input("none", <<>>)

\* an HTTP request: id and payload are read by the PUT handlers only
Request(method, route, id, payload) ==
  [method |-> method, route |-> route, id |-> id, payload |-> payload]

\* one response: its status, its Allow header ("" when absent), the item and
\* the items of its body
Reply(status, allow, item, items) ==
  [status |-> status, allow |-> allow, item |-> item, items |-> items]

\* what a handler did: the responses it sent, the storage reads and writes it
\* started, whether one of them failed, and the store it left
Outcome(replies, reads, writes, failed, store) ==
  [replies |-> replies, reads |-> reads, writes |-> writes, failed |-> failed,
   store |-> store]

\* a request served by an entry point: pre is list() just before the request
Served(entry, req, fault, out, pre) ==
  [entry |-> entry, req |-> req, fault |-> fault, replies |-> out.replies,
   reads |-> out.reads, writes |-> out.writes, failed |-> out.failed, pre |-> pre]

NoServed ==
  Served("none", Request("", "", <<>>, NoPayload), "none",
         Outcome(<<>>, 0, 0, FALSE, <<>>), <<>>)

\* the implementations of toLoteId: server.mjs, lib/lotesService.mjs (the
\* database service and the seed script), the legacy App, the current App
Sites == {"server", "service", "legacy", "app"}

\* no request served yet, no identifier derived; args are the (mz, lote) that
\* toLoteId may be handed
InitEdge(args) ==
  /\ http = NoServed
  /\ idArgs \in args
  /\ ids = [s \in Sites |-> <<>>]

\* (mz, lote) of parcel A-07
ArgsA7 == [mz |-> <<"A">>, lote |-> 7]

Init ==
  InitApi(InitialFiles) /\ InitOverrides({NoItem}, {TRUE}, {<<>>}) /\ InitApp /\ InitEdge({ArgsA7})

\* the system starts on the file of the concurrent requests
InitConc == Init /\ csvRows \in ConcFiles

\* a second passes on the adapter's clock
Tick ==
  /\ now < MaxClock
  /\ now' = now + 1
  /\ UNCHANGED <<backend, csvRows, dbTable, ops, last, list0, concVars, panelVars,
                 tabVars, appVars, edgeVars>>

\* GET /api/lotes of server.mjs
CsvGet ==
  /\ backend = "csv"
  /\ ops < MaxOps
  /\ ops' = ops + 1
  /\ last' = Exchange("get", <<>>, NoPayload, 200, NoLote, csvList(csvRows), List)
  /\ UNCHANGED <<backend, csvRows, dbTable, now, list0, concVars, panelVars,
                 tabVars, appVars, edgeVars>>

\* PUT /api/lotes/:id of server.mjs
CsvPut ==
  /\ backend = "csv"
  /\ ops < MaxOps
  /\ \E id \in RequestIds :
       LET index == findIndex(csvRows, csvLoteId(id))
       IN  \E payload \in Payloads :
             /\ ops' = ops + 1
             /\ IF index = 0
                THEN /\ last' = Exchange("put", id, payload, 404, NoLote, <<>>, List)
                     /\ UNCHANGED csvRows
                ELSE LET row == patchRow(csvRows[index], payload, now)
                     IN  /\ csvRows' = [csvRows EXCEPT ![index] = row]
                         /\ last' = Exchange("put", id, payload, 200, mapRowToLote(row),
                                             <<>>, List)
  /\ UNCHANGED <<backend, dbTable, now, list0, concVars, panelVars, tabVars, appVars, edgeVars>>

\* GET /api/lotes of the database-backed server
DbGet ==
  /\ backend = "db"
  /\ ops < MaxOps
  /\ ops' = ops + 1
  /\ last' = Exchange("get", <<>>, NoPayload, 200, NoLote, listLotes(dbTable), List)
  /\ UNCHANGED <<backend, csvRows, dbTable, now, list0, concVars, panelVars,
                 tabVars, appVars, edgeVars>>

\* PUT /api/lotes/:id of the database-backed server: updateLoteById
DbPut ==
  /\ backend = "db"
  /\ ops < MaxOps
  /\ \E id \in RequestIds, payload \in Payloads :
       /\ ops' = ops + 1
       /\ dbTable' = dbUpdate(dbTable, id, payload, now)
       /\ IF dbMatches(dbTable, id)
          THEN last' = Exchange("put", id, payload, 200,
                                updateLoteByIdItem(dbTable, id, payload, now), <<>>, List)
          ELSE last' = Exchange("put", id, payload, 404, NoLote, <<>>, List)
  /\ UNCHANGED <<backend, csvRows, now, list0, concVars, panelVars, tabVars, appVars, edgeVars>>

\* the client falls back to /assets/lotes.csv
FallbackLoad ==
  /\ ops < MaxOps
  /\ ops' = ops + 1
  /\ last' = Exchange("fallback", <<>>, NoPayload, 200, NoLote,
                      loadLotesFromCsvFallback(csvRows), List)
  /\ UNCHANGED <<backend, csvRows, dbTable, now, list0, concVars, panelVars,
                 tabVars, appVars, edgeVars>>

Next == Tick \/ CsvGet \/ CsvPut \/ DbGet \/ DbPut \/ FallbackLoad

Spec == Init /\ [][Next]_vars

\* ------------------------------------------------------------------------
\* Properties of the adapters, one request at a time (Spec)
\* ------------------------------------------------------------------------

\* the id of a request as the facade matches it: trimmed, case-insensitive
KeyOf(id) == ToUpperCase(Trim(id))

\* the first position of the lot with that id in a list
PosOf(list, key) ==
  CHOOSE i \in 1..Len(list) : list[i].id = key /\ \A j \in 1..(i - 1) : list[j].id # key

HasLot(list, key) == \E i \in 1..Len(list) : list[i].id = key

\* the last request was a successful update
Updated == last.op = "put" /\ last.status = 200

\* the lot of the last update, before it and in list() now
LotBefore == last.pre[PosOf(last.pre, KeyOf(last.id))]

LotAfter == List[PosOf(List, KeyOf(last.id))]

\* a status text normalised into the enumeration
StatusOf(text) ==
  IF ToUpperCase(Trim(text)) \in ALLOWED_STATUS THEN ToUpperCase(Trim(text)) ELSE sLIBRE

\* C1: updateById is a partial update in both adapters: every field of
\* {estado, asesor, cliente, comentario, price} that the patch does not carry
\* has the same value after the update as before it.
PartialUpdate ==
  Updated =>
    /\ last.payload.estado.t = "undef" => LotAfter.condicion = LotBefore.condicion
    /\ last.payload.asesor.t = "undef" => LotAfter.asesor = LotBefore.asesor
    /\ last.payload.cliente.t = "undef" => LotAfter.cliente = LotBefore.cliente
    /\ last.payload.comentario.t = "undef" => LotAfter.comentario = LotBefore.comentario
    /\ last.payload.price.t = "undef" => LotAfter.price = LotBefore.price

\* C2: after a successful updateById the next list() returns the lot with
\* every patched field equal to the patched value after normalisation: estado
\* in the status set, texts trimmed, price the submitted number for every
\* p >= 0 including 0, and null for a submitted null.
RoundTrip ==
  Updated =>
    /\ last.payload.estado.t = "str" => LotAfter.condicion = StatusOf(last.payload.estado.s)
    /\ last.payload.asesor.t = "str" => LotAfter.asesor = TextOrUndef(Trim(last.payload.asesor.s))
    /\ last.payload.cliente.t = "str" =>
         LotAfter.cliente = TextOrUndef(Trim(last.payload.cliente.s))
    /\ last.payload.comentario.t = "str" =>
         LotAfter.comentario = TextOrUndef(Trim(last.payload.comentario.s))
    /\ (last.payload.price.t = "num" /\ last.payload.price.m >= 0) =>
         LotAfter.price = last.payload.price
    /\ last.payload.price.t = "null" => LotAfter.price = Null

\* C3: an update whose id matches no row answers 404 (null) and leaves the
\* stored dataset, every ultimaModificacion included, exactly as it was.
NotFoundLeavesDataset ==
  [][(ops' = ops + 1 /\ last'.op = "put" /\ ~HasLot(List, KeyOf(last'.id)))
       => (last'.status = 404 /\ csvRows' = csvRows /\ dbTable' = dbTable)]_vars

\* an update of an absent id was answered on a dataset that holds lots
NotFoundAnswered ==
  /\ last.op = "put"
  /\ last.status = 404
  /\ ~HasLot(last.pre, KeyOf(last.id))
  /\ Len(last.pre) > 0

\* C4: every lot delivered by a read path (list() of either adapter, the
\* client's CSV fallback loader) and every condicion stored by an update is
\* in {LIBRE, SEPARADO, VENDIDO}.
StatusClosure ==
  /\ \A i \in 1..Len(last.items) : last.items[i].condicion \in ALLOWED_STATUS
  /\ Updated => last.item.condicion \in ALLOWED_STATUS /\ LotAfter.condicion \in ALLOWED_STATUS

\* C5: list() never holds two lots with the same id.
UniqueIds ==
  last.op = "get" =>
    \A i, j \in 1..Len(last.items) : i # j => last.items[i].id # last.items[j].id

\* ------------------------------------------------------------------------
\* Concurrent requests (SpecConc): the handlers split at their awaits
\* ------------------------------------------------------------------------

\* the readings that the adapter's clock can give next: time passes unseen
\* until a handler reads the clock
Readings == {t \in {now, now + 1} : t <= MaxClock}

\* requests arrive in the order of their numbers
MayArrive(c) == calls[c].pc = "idle" /\ \A d \in 1..(c - 1) : calls[d].pc # "idle"

\* writeBase with locking: the rows are read again when the write starts
writeBaseFresh(c) == csvRows

\* the rows that the CSV handler hands to writeCsvState: the rows it read
writeBase(c) == calls[c].snap

\* the whole file with a plausible slip: only the patched row is written back
writtenRowsOnlyPatched(c) ==
  LET index == findIndex(calls[c].snap, csvLoteId(calls[c].id))
  IN  <<patchRow(calls[c].snap[index], calls[c].payload, calls[c].clock)>>

\* the whole file that call c writes: the rows it read, with its one row patched
writtenRows(c) ==
  LET fileRows == writeBase(c)
      index == findIndex(calls[c].snap, csvLoteId(calls[c].id))
  IN  [fileRows EXCEPT ![index] = patchRow(calls[c].snap[index], calls[c].payload, calls[c].clock)]

\* PUT of server.mjs up to `await writeCsvState`: reads the file, answers 404
\* or patches its row in memory
CsvPutRead(c) ==
  /\ backend = "csv"
  /\ MayArrive(c)
  /\ \E id \in RequestIds, payload \in ConcPayloads, t \in Readings :
       /\ now' = t
       /\ calls' = [calls EXCEPT ![c] =
                      IF findIndex(csvRows, csvLoteId(id)) = 0
                      THEN Call("done", id, payload, csvRows, t, 404)
                      ELSE Call("write", id, payload, csvRows, t, 0)]
  /\ UNCHANGED <<backend, csvRows, dbTable, ops, last, list0, written, got, panelVars,
                 tabVars, appVars, edgeVars>>

\* writeCsvState completes: the whole file is replaced, then 200 is answered
CsvPutWrite(c) ==
  /\ backend = "csv"
  /\ calls[c].pc = "write"
  /\ csvRows' = writtenRows(c)
  /\ calls' = [calls EXCEPT ![c].pc = "done", ![c].status = 200]
  /\ written' = Append(written, c)
  /\ UNCHANGED <<backend, dbTable, now, ops, last, list0, got, panelVars, tabVars, appVars, edgeVars>>

\* updateLoteById up to its await: the patch is built and the UPDATE is sent
DbPutSend(c) ==
  /\ backend = "db"
  /\ MayArrive(c)
  /\ \E id \in RequestIds, payload \in ConcPayloads, t \in Readings :
       /\ now' = t
       /\ calls' = [calls EXCEPT ![c] = Call("sent", id, payload, dbTable, t, 0)]
  /\ UNCHANGED <<backend, csvRows, dbTable, ops, last, list0, written, got, panelVars,
                 tabVars, appVars, edgeVars>>

\* execBase as hydrate-then-save: the rows as they were when the call started
execBaseHydrated(c) == calls[c].snap

\* the rows that the UPDATE statement of call c patches: the stored rows
execBase(c) == dbTable

\* the database executes the UPDATE of call c as one statement; the handler
\* answers 200 with the row, or 404 when no row was updated
DbPutExec(c) ==
  /\ backend = "db"
  /\ calls[c].pc = "sent"
  /\ dbTable' = dbUpdate(execBase(c), calls[c].id, calls[c].payload, calls[c].clock)
  /\ calls' = [calls EXCEPT ![c].pc = "done",
                            ![c].status = IF dbMatches(dbTable, calls[c].id) THEN 200 ELSE 404]
  /\ written' = Append(written, c)
  /\ UNCHANGED <<backend, csvRows, now, ops, last, list0, got, panelVars, tabVars, appVars, edgeVars>>

\* what a GET shows of the identity of the lots
Keys(list) ==
  [i \in 1..Len(list) |->
     [id |-> list[i].id, mz |-> list[i].mz, lote |-> list[i].lote, areaM2 |-> list[i].areaM2]]

\* GET /api/lotes of either server, between the steps of the PUT requests
ConcGet ==
  /\ got' = Keys(List)
  /\ UNCHANGED <<backend, csvRows, dbTable, now, ops, last, list0, calls, written, panelVars,
                 tabVars, appVars, edgeVars>>

NextConc ==
  \/ ConcGet
  \/ \E c \in 1..MaxCalls : CsvPutRead(c)
  \/ \E c \in 1..MaxCalls : CsvPutWrite(c)
  \/ \E c \in 1..MaxCalls : DbPutSend(c)
  \/ \E c \in 1..MaxCalls : DbPutExec(c)

SpecConc == InitConc /\ [][NextConc]_vars

\* ------------------------------------------------------------------------
\* Properties of concurrent requests (SpecConc)
\* ------------------------------------------------------------------------

CallIndex(c) == findIndex(calls[c].snap, csvLoteId(calls[c].id))

Answered == {c \in 1..MaxCalls : calls[c].pc = "done"}

\* the orders in which a set of calls can run one after the other
Orders(S) ==
  {o \in [1..Cardinality(S) -> S] : \A i, j \in 1..Cardinality(S) : i # j => o[i] # o[j]}

RECURSIVE SerialRun(_, _)
\* the table after the calls of an order ran one at a time
SerialRun(table, order) ==
  IF order = <<>> THEN table
  ELSE SerialRun(dbUpdate(table, calls[order[1]].id, calls[order[1]].payload,
                          calls[order[1]].clock),
                 Tail(order))

\* the stored row with an id, in a table that holds it
RowOf(table, key) == table[CHOOSE i \in 1..Len(table) : table[i].id = key]

\* C8: in the database-backed variant, when no call is in flight the table
\* is the result of running the answered calls in some serial order; a call
\* that is the only one for its lot has its patch in the table, whatever
\* the other calls did.
Serializable ==
  (backend = "db" /\ \A c \in 1..MaxCalls : calls[c].pc \in {"idle", "done"}) =>
    LET table0 == seedTable(csvRows)
    IN  /\ \E o \in Orders(Answered) :
             dbTable = SerialRun(table0, [i \in 1..Cardinality(Answered) |-> o[i]])
        /\ \A c \in Answered :
             (calls[c].status = 200
                /\ \A d \in Answered \ {c} : KeyOf(calls[d].id) # KeyOf(calls[c].id)) =>
               RowOf(dbTable, KeyOf(calls[c].id)) =
                 servicePatchRow(RowOf(table0, KeyOf(calls[c].id)),
                                 calls[c].payload, calls[c].clock)

\* two updates of different lots were both in flight before either was
\* executed, and both rows carry their patch
BothTakeEffect ==
  /\ backend = "db"
  /\ \E c, d \in Answered :
       /\ c # d
       /\ calls[c].status = 200 /\ calls[d].status = 200
       /\ KeyOf(calls[c].id) # KeyOf(calls[d].id)
       /\ calls[c].snap = seedTable(csvRows) /\ calls[d].snap = seedTable(csvRows)
       /\ RowOf(dbTable, KeyOf(calls[c].id)).ultima_modificacion =
            Str(toCurrentTimestamp(calls[c].clock))
       /\ RowOf(dbTable, KeyOf(calls[d].id)).ultima_modificacion =
            Str(toCurrentTimestamp(calls[d].clock))

\* ------------------------------------------------------------------------
\* VendedorPanel: the seller's table, its drafts and its requests
\* ------------------------------------------------------------------------

\* normalizeStatus of VendedorPanel
normalizeStatusPanel(value) ==
  LET normalized == ToUpperCase(ToStr(OrElse(value, Str(sLIBRE))))
  IN  IF normalized = sSEPARADO \/ normalized = sVENDIDO THEN normalized ELSE sLIBRE

\* toPriceInput: the text of the price input
toPriceInput(value) ==
  IF IsNullish(value) \/ value.t = "nan" THEN <<>> ELSE ToStr(value)

\* numberFromInput: the price of a draft, null when the text is no number
numberFromInput(value) ==
  IF Trim(value) = <<>>
  THEN Null
  ELSE LET parsed == ParseFloat(ReplaceFirstComma(value, <<".">>))
       IN  IF parsed.t = "num" THEN parsed ELSE Null

\* the draft writeDraft starts from when the lot has none
baseDraft(row) ==
  Draft(TRUE, toPriceInput(row.price), ToStr(Coalesce(row.asesor, Str(<<>>))),
        normalizeStatusPanel(Str(row.condicion)),
        ToStr(Coalesce(row.cliente, Str(<<>>))),
        ToStr(Coalesce(row.comentario, Str(<<>>))))

\* writeDraft: the drafts after the seller sets one field of a row
writeDraft(current, row, field, value) ==
  LET base == IF current[row.id].has THEN current[row.id] ELSE baseDraft(row)
  IN  [current EXCEPT ![row.id] = [base EXCEPT ![field] = value]]

\* isDirty: the lot has a draft that differs from its row
isDirty(row) ==
  LET draft == drafts[row.id]
  IN  /\ draft.has
      /\ \/ numberFromInput(draft.price) # Coalesce(row.price, Null)
         \/ draft.asesor # ToStr(Coalesce(row.asesor, Str(<<>>)))
         \/ draft.estado # normalizeStatusPanel(Str(row.condicion))
         \/ draft.cliente # ToStr(Coalesce(row.cliente, Str(<<>>)))
         \/ draft.comentario # ToStr(Coalesce(row.comentario, Str(<<>>)))

\* the body saveRow sends for a draft
saveBody(draft) ==
  Payload(Str(normalizeStatusPanel(Str(draft.estado))), Str(draft.asesor),
          Str(draft.cliente), Str(draft.comentario), numberFromInput(draft.price))

\* a missing id test: every row becomes the returned item
rowsAfterSaveEveryRow(current, id, item) ==
  [i \in 1..Len(current) |-> item]

\* setRows of saveRow: the row of the saved lot becomes the returned item
rowsAfterSave(current, id, item) ==
  [i \in 1..Len(current) |-> IF current[i].id = id THEN item ELSE current[i]]

\* setDrafts of saveRow with a slip: every draft is dropped
draftsAfterSaveNone(current, id) == [x \in DOMAIN current |-> NoDraft]

\* setDrafts of saveRow: the draft of the saved lot is deleted
draftsAfterSave(current, id) == [current EXCEPT ![id] = NoDraft]

\* the seller panel runs against the CSV backed adapter
InitPanel == Init /\ backend = "csv" /\ csvRows \in PanelFiles

\* the next unused request of a sequence of requests
NextSlot(reqs, k) ==
  /\ reqs[k].pc = "idle"
  /\ \A j \in 1..(k - 1) : reqs[j].pc # "idle"

\* loadRows up to its fetch: the first call is the mount effect, which keeps
\* the notice; the later ones are the Refrescar button, which clears it
LoadStart(k) ==
  /\ NextSlot(loads, k)
  /\ loads' = [loads EXCEPT ![k] = Load("sent", FALSE, <<>>)]
  /\ notice' = IF k = 1 THEN notice ELSE <<>>
  /\ UNCHANGED <<backend, csvRows, dbTable, now, ops, last, list0, concVars,
                 rows, drafts, savingId, error, loading, saves, tabVars, appVars, edgeVars>>

\* GET /api/lotes answers the panel: the list, or 500 when the file fails
LoadServed(k) ==
  /\ loads[k].pc = "sent"
  /\ \E ok \in BOOLEAN :
       loads' = [loads EXCEPT ![k] = Load("answered", ok,
                                          IF ok THEN csvList(csvRows) ELSE <<>>)]
  /\ UNCHANGED <<backend, csvRows, dbTable, now, ops, last, list0, concVars,
                 rows, drafts, savingId, notice, error, loading, saves,
                 tabVars, appVars, edgeVars>>

\* loadRows after its fetch
LoadResolve(k) ==
  /\ loads[k].pc = "answered"
  /\ loads' = [loads EXCEPT ![k] = Load("done", FALSE, <<>>)]
  /\ IF loads[k].ok
     THEN rows' = loads[k].items /\ error' = Err("none", <<>>)
     ELSE rows' = rows /\ error' = Err("load", <<>>)
  /\ loading' = FALSE
  /\ UNCHANGED <<backend, csvRows, dbTable, now, ops, last, list0, concVars,
                 drafts, savingId, notice, saves, tabVars, appVars, edgeVars>>

\* the seller changes an input of a row
EditField ==
  /\ \E i \in 1..Len(rows) : \E edit \in Edits :
       /\ rows[i].id = edit[1]
       /\ drafts' = writeDraft(drafts, rows[i], edit[2], edit[3])
       /\ drafts' # drafts
  /\ UNCHANGED <<backend, csvRows, dbTable, now, ops, last, list0, concVars,
                 rows, savingId, notice, error, loading, saves, loads, tabVars, appVars, edgeVars>>

\* the save control of a row can be pressed
saveEnabled(row) == isDirty(row) /\ savingId # row.id

\* saveRow up to its fetch
SaveStart(k) ==
  /\ NextSlot(saves, k)
  /\ \E i \in 1..Len(rows) :
       /\ saveEnabled(rows[i])
       /\ saves' = [saves EXCEPT ![k] = Save("sent", rows[i].id,
                                             saveBody(drafts[rows[i].id]), FALSE, NoLote)]
       /\ savingId' = rows[i].id
  /\ notice' = <<>>
  /\ UNCHANGED <<backend, csvRows, dbTable, now, ops, last, list0, concVars,
                 rows, drafts, error, loading, loads, tabVars, appVars, edgeVars>>

\* PUT /api/lotes/:id answers the panel: the stored lot, 404, or 500 when the
\* file fails; the requests of one session are handled within one second
SaveServed(k) ==
  /\ saves[k].pc = "sent"
  /\ \E fails \in BOOLEAN :
       LET index == findIndex(csvRows, csvLoteId(saves[k].id))
       IN  IF fails \/ index = 0
           THEN /\ saves' = [saves EXCEPT ![k].pc = "answered"]
                /\ UNCHANGED csvRows
           ELSE LET row == patchRow(csvRows[index], saves[k].body, now)
                IN  /\ csvRows' = [csvRows EXCEPT ![index] = row]
                    /\ saves' = [saves EXCEPT ![k] =
                                   Save("answered", saves[k].id, saves[k].body, TRUE,
                                        mapRowToLote(row))]
  /\ UNCHANGED <<backend, dbTable, now, ops, last, list0, concVars,
                 rows, drafts, savingId, notice, error, loading, loads,
                 tabVars, appVars, edgeVars>>

\* saveRow after its fetch
SaveResolve(k) ==
  /\ saves[k].pc = "answered"
  /\ saves' = [saves EXCEPT ![k] = Save("done", <<>>, NoPayload, FALSE, NoLote)]
  /\ IF saves[k].ok
     THEN /\ rows' = rowsAfterSave(rows, saves[k].id, saves[k].item)
          /\ drafts' = draftsAfterSave(drafts, saves[k].id)
          /\ notice' = saves[k].id
          /\ error' = Err("none", <<>>)
     ELSE /\ error' = Err("save", saves[k].id)
          /\ UNCHANGED <<rows, drafts, notice>>
  /\ savingId' = <<>>
  /\ UNCHANGED <<backend, csvRows, dbTable, now, ops, last, list0, concVars,
                 loading, loads, tabVars, appVars, edgeVars>>

\* the seller closes the notice
NoticeClose ==
  /\ notice # <<>>
  /\ notice' = <<>>
  /\ UNCHANGED <<backend, csvRows, dbTable, now, ops, last, list0, concVars,
                 rows, drafts, savingId, error, loading, saves, loads, tabVars, appVars, edgeVars>>

NextPanel ==
  \/ EditField
  \/ NoticeClose
  \/ \E k \in 1..MaxLoads : LoadStart(k) \/ LoadServed(k) \/ LoadResolve(k)
  \/ \E k \in 1..MaxSaves : SaveStart(k) \/ SaveServed(k) \/ SaveResolve(k)

SpecPanel == InitPanel /\ [][NextPanel]_vars

\* a PUT of the panel is in flight: sent and not yet resolved
InFlight(k) == saves[k].pc \in {"sent", "answered"}

\* the row the panel shows for a lot
Shown(list, id) ==
  IF \E i \in 1..Len(list) : list[i].id = id
  THEN list[CHOOSE i \in 1..Len(list) : list[i].id = id]
  ELSE NoLote

\* C9: within one session of the panel no two PUTs for the same lot are in
\* flight together, whatever other rows are edited or saved meanwhile
SerializedSaves ==
  \A j, k \in 1..MaxSaves :
    (j # k /\ InFlight(j) /\ InFlight(k)) => saves[j].id # saves[k].id

\* C10: the shown row of a lot changes only in the step that resolves a
\* successful PUT for that lot, where it becomes the item the server returned,
\* or in the step that resolves a successful list load
NoOptimisticMutation ==
  [][\A id \in PanelIds :
       Shown(rows', id) # Shown(rows, id) =>
         \/ \E k \in 1..MaxSaves :
              /\ saves[k].pc = "answered" /\ saves'[k].pc = "done"
              /\ saves[k].ok /\ saves[k].id = id
              /\ Shown(rows', id) = saves[k].item
         \/ \E k \in 1..MaxLoads :
              /\ loads[k].pc = "answered" /\ loads'[k].pc = "done"
              /\ loads[k].ok /\ rows' = loads[k].items]_vars

\* C10: a PUT for one lot has resolved and its row shows the returned item,
\* while the PUT for another lot is still in flight, its row as it was loaded
SavedShownOthersUntouched ==
  \E id \in PanelIds : \E k \in 1..MaxSaves :
    /\ notice = id
    /\ Shown(rows, id) # Shown(list0, id)
    /\ Shown(rows, id) = Shown(csvList(csvRows), id)
    /\ InFlight(k) /\ saves[k].id # id
    /\ Shown(rows, saves[k].id) = Shown(list0, saves[k].id)
    /\ isDirty(Shown(rows, saves[k].id))

\* ------------------------------------------------------------------------
\* Legacy App: overrides kept in local storage and synchronised between tabs
\* ------------------------------------------------------------------------

\* cleanNumber of the legacy App
cleanNumberLegacy(value) ==
  IF IsFalsy(value) THEN Null
  ELSE LET normalized == ReplaceFirstComma(KeepNumeric(ToStr(value)), <<>>)
           parsed == ParseFloat(normalized)
       IN  IF parsed.t = "num" THEN parsed ELSE Null

\* toLoteId of the legacy App
toLoteIdLegacy(mz, lote) == mz \o <<"-">> \o PadStart0(IntToStr(lote), 2)

\* the guard of the flatMap callback of the CSV effect of the legacy App
LegacyRowHasKey(row) ==
  /\ ToUpperCase(Trim(row.MZ)) # <<>>
  /\ ParseInt(Trim(row.LOTE)).t = "num"

\* the lot the CSV effect of the legacy App makes of a row
legacyRowToLote(row) ==
  LET mz == ToUpperCase(Trim(row.MZ))
      lote == ParseInt(Trim(row.LOTE)).m
      condicion == ToUpperCase(Trim(ToStr(OrElse(Str(row.CONDICION), Str(sLIBRE)))))
  IN  [id |-> toLoteIdLegacy(mz, lote),
       mz |-> mz,
       lote |-> lote,
       areaM2 |-> cleanNumberLegacy(Str(row.AREA)),
       price |-> cleanNumberLegacy(Str(row.PRECIO)),
       condicion |-> IF condicion = <<>> THEN sLIBRE ELSE condicion,
       asesor |-> TextOrUndef(Trim(row.ASESOR)),
       cliente |-> Undef,
       comentario |-> Undef,
       ultimaModificacion |-> Undef]

\* the rows the CSV effect of the legacy App passes to setRawLotes
legacyLotes(fileRows) ==
  LET kept == SelectSeq(fileRows, LegacyRowHasKey)
  IN  [i \in 1..Len(kept) |-> legacyRowToLote(kept[i])]

\* loadOverrides: the parsed item, {} where it is missing or does not parse
loadOverrides(item) == IF item.kind = "json" THEN item.map ELSE NoOverrides

\* JSON.stringify followed by JSON.parse on one value: NaN becomes null
jsonValue(v) == IF v.t = "nan" THEN Null ELSE v

\* saveOverrides: the item setItem stores for a map
saveOverrides(map) ==
  Item("json", [id \in OverrideIds |->
                  Override(jsonValue(map[id].price), jsonValue(map[id].condicion),
                           jsonValue(map[id].cliente))])

\* the object spread {...a, ...b} of two overrides
spread(a, b) ==
  Override(IF b.price.t = "undef" THEN a.price ELSE b.price,
           IF b.condicion.t = "undef" THEN a.condicion ELSE b.condicion,
           IF b.cliente.t = "undef" THEN a.cliente ELSE b.cliente)

\* a spread in the other order, {...overrides[item.id], ...item}: the keys
\* of the item win
applyOverridesItemLast(items, map) ==
  [i \in 1..Len(items) |->
     [items[i] EXCEPT
        !.cliente = IF @.t = "undef" THEN map[items[i].id].cliente ELSE @]]

\* applyOverrides: every item with its override spread on top
applyOverrides(items, map) ==
  [i \in 1..Len(items) |->
     LET o == IF items[i].id \in DOMAIN map THEN map[items[i].id] ELSE NoOverride
     IN  [items[i] EXCEPT
            !.price = IF o.price.t = "undef" THEN @ ELSE o.price,
            !.condicion = IF o.condicion.t = "undef" THEN @ ELSE ToStr(o.condicion),
            !.cliente = IF o.cliente.t = "undef" THEN @ ELSE o.cliente]]

\* the lots a tab shows
lotes(t) == applyOverrides(rawLotes[t], overrides[t])

\* the patches the seller table of the legacy App passes to updateOverride
Patches ==
  {Override(IF v # <<>> THEN ParseFloat(v) ELSE Null, Undef, Undef) : v \in PriceInputs}
    \cup {Override(Undef, Str(sSEPARADO), Undef)}

\* a line of the history: the time, the lot and the patch
Line(at, id, patch) == [at |-> at, id |-> id, patch |-> patch]

\* the number of lines the history keeps
HISTORY_LIMIT == 200

\* appendHistory with a slip: the list is never cut
appendHistoryUncut(lines, line) == <<line>> \o lines

\* appendHistory: the new line first, the list cut to its limit
appendHistory(lines, line) ==
  LET all == <<line>> \o lines
  IN  SubSeq(all, 1, IF Len(all) < HISTORY_LIMIT THEN Len(all) ELSE HISTORY_LIMIT)

\* an updater that starts from the stored map instead of the tab's state
currentStored(t) == loadOverrides(stored)

\* the map the updater of updateOverride starts from: the state of the tab
current(t) == overrides[t]

\* the map updateOverride builds
nextOverrides(t, id, patch) ==
  [current(t) EXCEPT ![id] = spread(current(t)[id], patch)]

\* a sync that keeps the state of the tab
syncStale(t) == overrides[t]

\* sync: the state the listener of a tab sets
sync(t) == loadOverrides(stored)

\* the legacy App runs on the file of the concurrent requests
InitTabs ==
  /\ InitApi(ConcFiles)
  /\ InitApp
  /\ InitEdge({ArgsA7})
  /\ backend = "csv"
  /\ InitOverrides(InitialStores, BOOLEAN, {<<>>})

\* the override effect of a tab that mounts: it reads the map and listens
OpenTab(t) ==
  /\ ~tabOpen[t]
  /\ tabOpen' = [tabOpen EXCEPT ![t] = TRUE]
  /\ overrides' = [overrides EXCEPT ![t] = loadOverrides(stored)]
  /\ UNCHANGED <<backend, csvRows, dbTable, now, ops, last, list0, concVars, panelVars,
                 appVars, edgeVars,
                 rawLotes, signals, hasChannel, stored, history, overrideWrites>>

\* the CSV effect of a tab: its fetch resolves and the rows are set
LotesLoaded(t) ==
  /\ tabOpen[t]
  /\ rawLotes[t] = <<>>
  /\ rawLotes' = [rawLotes EXCEPT ![t] = legacyLotes(csvRows)]
  /\ UNCHANGED <<backend, csvRows, dbTable, now, ops, last, list0, concVars, panelVars,
                 appVars, edgeVars,
                 tabOpen, overrides, signals, hasChannel, stored, history, overrideWrites>>

\* the signals a write of tab t adds for tab u: a storage event for each item
\* that changed, in the other tabs, and the channel message, in every tab
signalsOf(t, u, item) ==
  IF ~tabOpen[u] THEN 0
  ELSE (IF hasChannel THEN 1 ELSE 0)
       + (IF u = t THEN 0 ELSE 1 + (IF item # stored THEN 1 ELSE 0))

\* updateOverride of a tab, for a lot it shows
UpdateOverride(t) ==
  /\ tabOpen[t]
  /\ overrideWrites < MaxWrites
  /\ overrideWrites' = overrideWrites + 1
  /\ \E i \in 1..Len(rawLotes[t]) : \E patch \in Patches :
       LET id == lotes(t)[i].id
           next == nextOverrides(t, id, patch)
       IN  /\ stored' = saveOverrides(next)
           /\ history' = appendHistory(history, Line(now, id, patch))
           /\ signals' = [u \in Tabs |-> signals[u] + signalsOf(t, u, saveOverrides(next))]
           /\ overrides' = [overrides EXCEPT ![t] = next]
  /\ UNCHANGED <<backend, csvRows, dbTable, now, ops, last, list0, concVars, panelVars,
                 appVars, edgeVars,
                 tabOpen, rawLotes, hasChannel>>

\* a storage event or a channel message reaches the listener of a tab
Deliver(t) ==
  /\ tabOpen[t]
  /\ signals[t] > 0
  /\ signals' = [signals EXCEPT ![t] = @ - 1]
  /\ overrides' = [overrides EXCEPT ![t] = sync(t)]
  /\ UNCHANGED <<backend, csvRows, dbTable, now, ops, last, list0, concVars, panelVars,
                 appVars, edgeVars,
                 tabOpen, rawLotes, hasChannel, stored, history, overrideWrites>>

NextTabs ==
  \E t \in Tabs : OpenTab(t) \/ LotesLoaded(t) \/ UpdateOverride(t) \/ Deliver(t)

SpecTabs == InitTabs /\ [][NextTabs]_vars

\* every pending storage event and channel message is eventually delivered
SpecTabsFair == SpecTabs /\ \A t \in Tabs : WF_vars(Deliver(t))

\* ------------------------------------------------------------------------
\* Claims about the overrides of the legacy App
\* ------------------------------------------------------------------------

\* the state of every open tab is the map local storage holds
Consistent == \A t \in Tabs : tabOpen[t] => overrides[t] = loadOverrides(stored)

\* C11: once the writes have stopped and every pending storage event and
\* channel message is delivered, the override map of every open tab equals
\* the stored map, and stays equal
EventuallyConsistent == <>[]Consistent

\* the stored map misses the override of the write before the last, which was
\* for another lot
OlderWriteLost ==
  /\ Len(history) >= 2
  /\ history[1].id # history[2].id
  /\ spread(loadOverrides(stored)[history[2].id], history[2].patch)
       # loadOverrides(stored)[history[2].id]

\* C11: two tabs have written without seeing each other's write, one override
\* is lost, every signal is delivered and both tabs hold the stored map
ConsistentAfterLoss ==
  /\ OlderWriteLost
  /\ \A t \in Tabs : tabOpen[t] /\ signals[t] = 0
  /\ Consistent

\* the step is an updateOverride of tab t
Wrote(t) ==
  /\ history' # history
  /\ overrides'[t] = [overrides[t] EXCEPT
                        ![history'[1].id] = spread(@, history'[1].patch)]
  /\ \A u \in Tabs \ {t} : overrides'[u] = overrides[u]

\* C12: every override write stores the writing tab's own map with its patch
\* merged in, whatever local storage held: what another tab had stored
\* meanwhile, for the same or another lot, is not merged
WritesNotMerged ==
  [][history' # history =>
       \E t \in Tabs : Wrote(t) /\ stored' = saveOverrides(overrides'[t])]_vars

\* C12: both tabs wrote before either processed the other's signal, for
\* different lots, and the override written first is gone from local storage
ConcurrentWriteLost ==
  /\ OlderWriteLost
  /\ \A t \in Tabs : tabOpen[t] /\ signals[t] > 0
  /\ \E t \in Tabs : overrides[t] # loadOverrides(stored)

\* the merged list of a canonical list and an override map has the lots of
\* the canonical list, each field from the override where it defines it
Shadows(items, map) ==
  LET merged == applyOverrides(items, map)
  IN  /\ Len(merged) = Len(items)
      /\ \A i \in 1..Len(items) :
           LET o == map[items[i].id]
           IN  /\ merged[i].id = items[i].id
               /\ merged[i].mz = items[i].mz
               /\ merged[i].lote = items[i].lote
               /\ merged[i].areaM2 = items[i].areaM2
               /\ merged[i].asesor = items[i].asesor
               /\ merged[i].price = IF o.price.t = "undef" THEN items[i].price ELSE o.price
               /\ Str(merged[i].condicion) =
                    IF o.condicion.t = "undef" THEN Str(items[i].condicion) ELSE o.condicion
               /\ merged[i].cliente =
                    IF o.cliente.t = "undef" THEN items[i].cliente ELSE o.cliente
      /\ \A id \in OverrideIds :
           (\A i \in 1..Len(items) : items[i].id # id) =>
             applyOverrides(items, [map EXCEPT ![id] = NoOverride]) = merged

\* C13: applyOverrides keeps the length and the ids of the canonical list,
\* takes each field from the override where the override defines it and from
\* the canonical lot otherwise, ignores overrides of ids the list lacks, and
\* an override write leaves the canonical list unchanged
OverridesOnlyShadow ==
  /\ [](\A t \in Tabs : Shadows(rawLotes[t], overrides[t]))
  /\ [][history' # history => rawLotes' = rawLotes]_vars

\* C13: a tab shows its canonical lots with an override on top, after a
\* write, while its map also holds an override of a lot the list lacks
ShadowedAndForeign ==
  \E t \in Tabs :
    /\ Len(history) > 0
    /\ rawLotes[t] # <<>>
    /\ lotes(t) # rawLotes[t]
    /\ overrides[t][<<"Z", "-", "9", "9">>] # NoOverride
    /\ \A i \in 1..Len(rawLotes[t]) : rawLotes[t][i].id # <<"Z", "-", "9", "9">>

\* ------------------------------------------------------------------------
\* Current App: selecting a lot, the quick quote and the proforma
\* ------------------------------------------------------------------------

\* the current App runs against the CSV backed adapter
InitProforma ==
  /\ InitApi(ProformaFiles)
  /\ backend = "csv"
  /\ InitOverrides({NoItem}, {TRUE}, {<<>>})
  /\ InitApp
  /\ InitEdge({ArgsA7})

\* what the steps of the current App leave alone
AppFrame ==
  UNCHANGED <<backend, csvRows, dbTable, now, ops, last, list0, concVars, panelVars, tabVars,
              edgeVars>>

\* the lot effect of the App: the list of the API, or of the CSV fallback when
\* the API fails
AppLotesLoaded ==
  /\ appLotes = <<>>
  /\ \E items \in {csvList(csvRows), loadLotesFromCsvFallback(csvRows)} : appLotes' = items
  /\ UNCHANGED <<selectedId, quote, proforma, lastPriceEdited, proformaOpen, proformaDirty,
                 proformaConfirmClose, edits, lastInput>>
  /\ AppFrame

\* selectedLote
selectedLote == Shown(appLotes, selectedId)

\* the user selects a lot; the price effect copies a price that is not null
SelectLote ==
  /\ ~proformaOpen
  /\ \E i \in 1..Len(appLotes) :
       /\ selectedId' = appLotes[i].id
       /\ quote' = IF IsNullish(appLotes[i].price) THEN quote
                   ELSE [quote EXCEPT !.precio = FromNum(appLotes[i].price)]
  /\ selectedId' # selectedId
  /\ UNCHANGED <<appLotes, proforma, lastPriceEdited, proformaOpen, proformaDirty,
                 proformaConfirmClose, edits, lastInput>>
  /\ AppFrame

\* the Inicial input of the quick quote
QuoteInicial ==
  /\ ~proformaOpen
  /\ \E v \in InicialInputs :
       quote' = [quote EXCEPT !.inicialMonto = MathMax(inputNumber(v), Whole(6000))]
  /\ UNCHANGED <<appLotes, selectedId, proforma, lastPriceEdited, proformaOpen, proformaDirty,
                 proformaConfirmClose, edits, lastInput>>
  /\ AppFrame

\* the Meses input of the quick quote
QuoteCuotas ==
  /\ ~proformaOpen
  /\ \E v \in MesesInputs :
       quote' = [quote EXCEPT !.cuotas = clamp(inputNumber(v), Whole(1), Whole(36))]
  /\ UNCHANGED <<appLotes, selectedId, proforma, lastPriceEdited, proformaOpen, proformaDirty,
                 proformaConfirmClose, edits, lastInput>>
  /\ AppFrame

\* openProforma for a selected lot that is not sold
OpenProforma ==
  /\ ~proformaOpen
  /\ selectedId # <<>>
  /\ selectedLote.condicion # sVENDIDO
  /\ proforma' = refreshProformaFromLote(selectedLote, now)
  /\ lastPriceEdited' = "none"
  /\ proformaDirty' = FALSE
  /\ proformaOpen' = TRUE
  /\ UNCHANGED <<appLotes, selectedId, quote, proformaConfirmClose, edits, lastInput>>
  /\ AppFrame

\* updateProforma: the updated draft recalculated, the proforma dirty
updateProforma(draft, edited, field, text) ==
  /\ proformaOpen
  /\ edits < MaxEdits
  /\ edits' = edits + 1
  /\ lastInput' = Input(field, text)
  /\ lastPriceEdited' = edited
  /\ proforma' = recalcProforma(draft, edited, now)
  /\ proformaDirty' = TRUE
  /\ UNCHANGED <<appLotes, selectedId, quote, proformaOpen, proformaConfirmClose>>
  /\ AppFrame

\* the inputs of the proforma
EditInicial ==
  \E v \in InicialInputs :
    updateProforma([proforma EXCEPT !.inicial = MathMax(inputNumber(v), Whole(6000))], "none",
                   "inicial", v)

EditSeparacion ==
  \E v \in SeparacionInputs :
    updateProforma([proforma EXCEPT !.separacion = inputNumber(v)], "none",
                   "separacion", v)

EditMeses ==
  \E v \in MesesInputs :
    updateProforma([proforma EXCEPT !.meses = clamp(inputNumber(v), Whole(1), Whole(36))], "none",
                   "meses", v)

EditSoles ==
  \E v \in SolesInputs :
    updateProforma([proforma EXCEPT !.descuentoSoles = inputNumber(v)], "soles",
                   "descuentoSoles", v)

EditPct ==
  \E v \in PctInputs :
    updateProforma([proforma EXCEPT !.descuentoPct = inputNumber(v)], "pct",
                   "descuentoPct", v)

EditPromo ==
  \E v \in PromoInputs :
    updateProforma([proforma EXCEPT !.precioPromocional = inputNumber(v)], "promo",
                   "precioPromocional", v)

EditDias ==
  \E v \in DiasInputs :
    updateProforma([proforma EXCEPT !.diasVigencia = inputNumber(v)], lastPriceEdited,
                   "diasVigencia", v)

EditNombre ==
  \E v \in NombreInputs :
    updateProforma([proforma EXCEPT !.nombre = v], lastPriceEdited,
                   "nombre", v)

\* the backdrop and the Cerrar button closing the proforma at once
RequestCloseAtOnce ==
  /\ proformaOpen
  /\ proformaOpen' = FALSE
  /\ UNCHANGED <<appLotes, selectedId, quote, proforma, lastPriceEdited, proformaDirty,
                 proformaConfirmClose, edits, lastInput>>
  /\ AppFrame

\* the backdrop and the Cerrar button of the proforma
RequestClose ==
  /\ proformaOpen
  /\ IF proformaDirty
     THEN proformaConfirmClose' = TRUE /\ UNCHANGED proformaOpen
     ELSE proformaOpen' = FALSE /\ UNCHANGED proformaConfirmClose
  /\ UNCHANGED <<appLotes, selectedId, quote, proforma, lastPriceEdited, proformaDirty,
                 edits, lastInput>>
  /\ AppFrame

\* Cancelar and the backdrop of the discard dialog
CancelClose ==
  /\ proformaConfirmClose
  /\ proformaConfirmClose' = FALSE
  /\ UNCHANGED <<appLotes, selectedId, quote, proforma, lastPriceEdited, proformaOpen,
                 proformaDirty, edits, lastInput>>
  /\ AppFrame

\* Descartar of the discard dialog
Discard ==
  /\ proformaConfirmClose
  /\ proformaConfirmClose' = FALSE
  /\ proformaOpen' = FALSE
  /\ proformaDirty' = FALSE
  /\ UNCHANGED <<appLotes, selectedId, quote, proforma, lastPriceEdited, edits,
                 lastInput>>
  /\ AppFrame

\* the clock of the browser passes midnight
Midnight ==
  /\ now \div 86400 < MaxDays
  /\ now' = ((now \div 86400) + 1) * 86400
  /\ UNCHANGED <<backend, csvRows, dbTable, ops, last, list0, concVars, panelVars,
                 tabVars, appVars, edgeVars>>

NextProforma ==
  \/ AppLotesLoaded \/ SelectLote \/ QuoteInicial \/ QuoteCuotas \/ OpenProforma
  \/ EditInicial \/ EditSeparacion \/ EditMeses \/ EditSoles \/ EditPct \/ EditPromo
  \/ EditDias \/ EditNombre
  \/ RequestClose \/ CancelClose \/ Discard

SpecProforma == InitProforma /\ [][NextProforma]_vars

\* the current App on a file of one lot for sale, left open over midnight
InitExpiry ==
  /\ InitApi(ExpiryFiles)
  /\ backend = "csv"
  /\ InitOverrides({NoItem}, {TRUE}, {<<>>})
  /\ InitApp
  /\ InitEdge({ArgsA7})

NextExpiry == NextProforma \/ Midnight

SpecExpiry == InitExpiry /\ [][NextExpiry]_vars

\* onKey of the key effect for the Escape key, open and dirty being the
\* proformaOpen and proformaDirty of the render that registered it; the drawer
\* it closes otherwise is not part of the state
onKey(open, dirty) ==
  IF open
  THEN IF dirty
       THEN proformaConfirmClose' = TRUE /\ UNCHANGED proformaOpen
       ELSE proformaOpen' = FALSE /\ UNCHANGED proformaConfirmClose
  ELSE UNCHANGED <<proformaOpen, proformaConfirmClose>>

\* the user presses Escape: the effect has no dependencies, so the listener
\* is the one of the first render, where proformaOpen and proformaDirty are
\* false
EscapeKey ==
  /\ lastInput' = Input("Escape", <<>>)
  /\ onKey(FALSE, FALSE)
  /\ UNCHANGED <<appLotes, selectedId, quote, proforma, lastPriceEdited, proformaDirty, edits>>
  /\ AppFrame

NextKeys == NextProforma \/ EscapeKey

\* the current App on a file of one lot for sale, with the keyboard
SpecKeys == InitExpiry /\ [][NextKeys]_vars

\* ------------------------------------------------------------------------
\* Claims about the quote and the proforma
\* ------------------------------------------------------------------------

\* a <= b
AtMost(a, b) == ~Less(b, a)

\* v brought into the range from lo to hi
Within(v, lo, hi) == IF Less(v, lo) THEN lo ELSE IF Less(hi, v) THEN hi ELSE v

\* the discount d of a regular price r, in percent
PctOf(d, r) == IF r.n = 0 THEN Whole(0) ELSE Over(Times(d, Whole(100)), r)

\* C14: in every state of the proforma, 0 <= descuentoSoles <= precioRegular,
\* 0 <= descuentoPct <= 100, 0 <= precioPromocional <= precioRegular and
\* precioPromocional = precioRegular - descuentoSoles
DiscountInvariants ==
  /\ AtMost(Whole(0), proforma.descuentoSoles)
  /\ AtMost(proforma.descuentoSoles, proforma.precioRegular)
  /\ AtMost(Whole(0), proforma.descuentoPct)
  /\ AtMost(proforma.descuentoPct, Whole(100))
  /\ AtMost(Whole(0), proforma.precioPromocional)
  /\ AtMost(proforma.precioPromocional, proforma.precioRegular)
  /\ proforma.precioPromocional = Minus(proforma.precioRegular, proforma.descuentoSoles)

\* the three prices of proforma p agree, descuentoSoles taken as given
FromSoles(p) ==
  /\ p.precioPromocional = Minus(p.precioRegular, p.descuentoSoles)
  /\ p.descuentoPct = PctOf(p.descuentoSoles, p.precioRegular)

\* C15: an edit of descuentoSoles, descuentoPct or precioPromocional to v
\* leaves that field at v brought into its range and the other two computed
\* from it; an edit made while none of the three is the field edited last
\* keeps precioPromocional, brought into its range, and computes the other
\* two from it
LastTouchedWins ==
  [][edits' = edits + 1 =>
       LET p == proforma'
           r == p.precioRegular
           v == inputNumber(lastInput'.text)
       IN  /\ lastInput'.field = "descuentoSoles" =>
                p.descuentoSoles = Within(v, Whole(0), r) /\ FromSoles(p)
           /\ lastInput'.field = "descuentoPct" =>
                /\ p.descuentoPct = Within(v, Whole(0), Whole(100))
                /\ p.descuentoSoles = Over(Times(p.descuentoPct, r), Whole(100))
                /\ p.precioPromocional = Minus(r, p.descuentoSoles)
           /\ lastInput'.field = "precioPromocional" =>
                p.precioPromocional = Within(v, Whole(0), r) /\ FromSoles(p)
           /\ lastPriceEdited' = "none" =>
                p.precioPromocional = Within(proforma.precioPromocional, Whole(0), r)
                  /\ FromSoles(p)]_vars

\* C15: descuentoPct was set to 50 on a priced lot: precioPromocional and
\* descuentoSoles are both half of precioRegular
HalfPrice ==
  /\ lastInput = Input("descuentoPct", <<"5", "0">>)
  /\ Less(Whole(0), proforma.precioRegular)
  /\ proforma.descuentoPct = Whole(50)
  /\ Plus(proforma.precioPromocional, proforma.precioPromocional) = proforma.precioRegular
  /\ proforma.descuentoSoles = proforma.precioPromocional

\* C16: in every state of the current App the down payment of the quick quote
\* and that of the proforma are 6000 or more
DownPaymentFloor ==
  /\ AtMost(Whole(6000), quote.inicialMonto)
  /\ AtMost(Whole(6000), proforma.inicial)

\* ------------------------------------------------------------------------
\* The entry points of the backend: server.mjs, the database-backed express
\* server, api/lotes.js and api/lotes/[id].js
\* ------------------------------------------------------------------------

ListRoute == "/api/lotes"

ItemRoute == "/api/lotes/:id"

\* the methods of the requests
Methods == {"GET", "PUT", "POST", "DELETE"}

\* what may go wrong in the storage of server.mjs while a request is served:
\* fs.readFile rejects, or fs.writeFile rejects
FileFaults == {"none", "read", "write"}

\* what may go wrong in the storage of lotesService: the statement comes back
\* with an error, or getSupabaseAdminClient throws
DbFaults == {"none", "statement", "client"}

\* the files of public/assets/lotes.csv the entry points start on
RowBlankMz ==
  CsvRow(<<" ">>, <<"3">>, <<"7", "0">>, <<"2", "0", "0">>, sLIBRE, <<>>, <<>>, <<>>)

RowC5 ==
  CsvRow(<<" ", "c">>, <<" ", "0", "5">>, <<"6", "0">>, <<>>, sSEPARADO, <<>>, <<>>, <<>>)

HttpFiles ==
  {<<RowNoLote, RowA7>>, <<RowB12, RowBlankMz, RowA7, RowNoLote, RowC5>>, <<RowNoLote>>,
   <<RowA7, RowB12>>}

\* request bodies: a status and a price that are no status and no number, a
\* price and a status that are, an empty body
HttpPayloads ==
  {Payload(Str(<<"x">>), Undef, Undef, Undef, Str(<<"a", "b", "c">>)),
   Payload(Str(sSEPARADO), Undef, Undef, Undef, Num(500, 0)),
   NoPayload}

\* res.status(500).json({ error })
serverError == Reply(500, "", NoLote, <<>>)

\* res.status(404).json({ error })
notFound == Reply(404, "", NoLote, <<>>)

\* express when no route is registered for the method and the path: its final
\* handler answers 404, and no handler of the server runs
unrouted(store) == Outcome(<<Reply(404, "", NoLote, <<>>)>>, 0, 0, FALSE, store)

\* app.get("/api/lotes") of server.mjs
serverGet(fileRows, fault) ==
  IF fault = "read"
  THEN Outcome(<<serverError>>, 1, 0, TRUE, fileRows)
  ELSE Outcome(<<Reply(200, "", NoLote, csvList(fileRows))>>, 1, 0, FALSE, fileRows)

\* app.put with a slip: the response is sent without awaiting writeCsvState
serverPutUnawaited(fileRows, id, payload, fault, clock) ==
  IF fault = "read"
  THEN Outcome(<<serverError>>, 1, 0, TRUE, fileRows)
  ELSE LET index == findIndex(fileRows, csvLoteId(id))
       IN  IF index = 0
           THEN Outcome(<<notFound>>, 1, 0, FALSE, fileRows)
           ELSE LET row == patchRow(fileRows[index], payload, clock)
                IN  Outcome(<<Reply(200, "", mapRowToLote(row), <<>>)>>, 1, 1,
                            fault = "write",
                            IF fault = "write" THEN fileRows
                            ELSE [fileRows EXCEPT ![index] = row])

\* app.put("/api/lotes/:id") of server.mjs
serverPut(fileRows, id, payload, fault, clock) ==
  IF fault = "read"
  THEN Outcome(<<serverError>>, 1, 0, TRUE, fileRows)
  ELSE LET index == findIndex(fileRows, csvLoteId(id))
       IN  IF index = 0
           THEN Outcome(<<notFound>>, 1, 0, FALSE, fileRows)
           ELSE LET row == patchRow(fileRows[index], payload, clock)
                IN  IF fault = "write"
                    THEN Outcome(<<serverError>>, 1, 1, TRUE, fileRows)
                    ELSE Outcome(<<Reply(200, "", mapRowToLote(row), <<>>)>>, 1, 1, FALSE,
                                 [fileRows EXCEPT ![index] = row])

\* the routes of server.mjs
serverRoutes(req, fileRows, fault, clock) ==
  IF req.method = "GET" /\ req.route = ListRoute THEN serverGet(fileRows, fault)
  ELSE IF req.method = "PUT" /\ req.route = ItemRoute
       THEN serverPut(fileRows, req.id, req.payload, fault, clock)
       ELSE unrouted(fileRows)

\* the try block of a handler that lists: getSupabaseAdminClient, listLotes
serviceGet(table, fault) ==
  IF fault = "client" THEN Outcome(<<serverError>>, 0, 0, TRUE, table)
  ELSE IF fault = "statement" THEN Outcome(<<serverError>>, 1, 0, TRUE, table)
  ELSE Outcome(<<Reply(200, "", NoLote, listLotes(table))>>, 1, 0, FALSE, table)

\* the try block of a handler that updates: getSupabaseAdminClient,
\* updateLoteById
servicePut(table, id, payload, fault, clock) ==
  IF fault = "client" THEN Outcome(<<serverError>>, 0, 0, TRUE, table)
  ELSE IF fault = "statement" THEN Outcome(<<serverError>>, 0, 1, TRUE, table)
  ELSE IF dbMatches(table, id)
       THEN Outcome(<<Reply(200, "", updateLoteByIdItem(table, id, payload, clock), <<>>)>>,
                    0, 1, FALSE, dbUpdate(table, id, payload, clock))
       ELSE Outcome(<<notFound>>, 0, 1, FALSE, table)

\* the routes of the database-backed express server
supabaseRoutes(req, table, fault, clock) ==
  IF req.method = "GET" /\ req.route = ListRoute THEN serviceGet(table, fault)
  ELSE IF req.method = "PUT" /\ req.route = ItemRoute
       THEN servicePut(table, req.id, req.payload, fault, clock)
       ELSE unrouted(table)

\* res.setHeader("Allow", method); res.status(405).json({ error })
methodNotAllowed(allow, table) == Outcome(<<Reply(405, allow, NoLote, <<>>)>>, 0, 0, FALSE, table)

\* handler of api/lotes.js
lotesHandler(req, table, fault) ==
  IF req.method # "GET" THEN methodNotAllowed("GET", table)
  ELSE serviceGet(table, fault)

\* handler of api/lotes/[id].js
loteByIdHandler(req, table, fault, clock) ==
  IF req.method # "PUT" THEN methodNotAllowed("PUT", table)
  ELSE servicePut(table, req.id, req.payload, fault, clock)

\* the requests a client may send: a PUT of a lot carries an id and a body
Requests ==
  {Request(m, ListRoute, <<>>, NoPayload) : m \in Methods}
    \cup {Request(m, ItemRoute, <<"B", "-", "1", "2">>, NoPayload) : m \in Methods \ {"PUT"}}
    \cup {Request("PUT", ItemRoute, id, payload) : id \in RequestIds, payload \in HttpPayloads}

\* the entry points start on one of the files; the database was seeded from it
InitHttp ==
  /\ InitApi(HttpFiles)
  /\ InitOverrides({NoItem}, {TRUE}, {<<>>})
  /\ InitApp
  /\ InitEdge({ArgsA7})

\* everything but the stores, the request counter and the last request
HttpFrame ==
  UNCHANGED <<backend, now, last, list0, concVars, panelVars, tabVars, appVars, idArgs, ids>>

\* server.mjs serves a request
ServerRequest ==
  /\ backend = "csv"
  /\ ops < MaxOps
  /\ \E req \in Requests, fault \in FileFaults :
       LET out == serverRoutes(req, csvRows, fault, now)
       IN  /\ http' = Served("server.mjs", req, fault, out, List)
           /\ csvRows' = out.store
  /\ ops' = ops + 1
  /\ UNCHANGED dbTable
  /\ HttpFrame

\* the database-backed express server serves a request
SupabaseRequest ==
  /\ backend = "db"
  /\ ops < MaxOps
  /\ \E req \in Requests, fault \in DbFaults :
       LET out == supabaseRoutes(req, dbTable, fault, now)
       IN  /\ http' = Served("supabase-server", req, fault, out, List)
           /\ dbTable' = out.store
  /\ ops' = ops + 1
  /\ UNCHANGED csvRows
  /\ HttpFrame

\* api/lotes.js serves a request to /api/lotes
LotesFunction ==
  /\ backend = "db"
  /\ ops < MaxOps
  /\ \E req \in {r \in Requests : r.route = ListRoute}, fault \in DbFaults :
       LET out == lotesHandler(req, dbTable, fault)
       IN  /\ http' = Served("api/lotes.js", req, fault, out, List)
           /\ dbTable' = out.store
  /\ ops' = ops + 1
  /\ UNCHANGED csvRows
  /\ HttpFrame

\* api/lotes/[id].js serves a request to /api/lotes/{id}
LoteByIdFunction ==
  /\ backend = "db"
  /\ ops < MaxOps
  /\ \E req \in {r \in Requests : r.route = ItemRoute}, fault \in DbFaults :
       LET out == loteByIdHandler(req, dbTable, fault, now)
       IN  /\ http' = Served("api/lotes/[id].js", req, fault, out, List)
           /\ dbTable' = out.store
  /\ ops' = ops + 1
  /\ UNCHANGED csvRows
  /\ HttpFrame

NextHttp == ServerRequest \/ SupabaseRequest \/ LotesFunction \/ LoteByIdFunction

SpecHttp == InitHttp /\ [][NextHttp]_vars

\* ------------------------------------------------------------------------
\* Properties of the entry points (SpecHttp)
\* ------------------------------------------------------------------------

IsPut == http.req.method = "PUT" /\ http.req.route = ItemRoute

\* the method an entry point permits on a route
Permitted(route) == IF route = ListRoute THEN "GET" ELSE "PUT"

\* C17: every PUT /api/lotes/{id} has exactly one response: 500 when and only
\* when the storage failed; otherwise 200 with the updated item when a lot
\* matches the id trimmed and without regard to case, and 404 when none does;
\* a status that is no status is stored as LIBRE and a price that is no
\* number as null, and the request is answered 200 all the same
PutAnswered ==
  IsPut =>
    /\ Len(http.replies) = 1
    /\ LET reply == http.replies[1]
           key == KeyOf(http.req.id)
           found == HasLot(http.pre, key)
       IN  /\ reply.status \in {200, 404, 500}
           /\ reply.status = 500 <=> http.failed
           /\ reply.status = 200 <=> ~http.failed /\ found
           /\ reply.status = 404 <=> ~http.failed /\ ~found
           /\ reply.status = 200 =>
                /\ HasLot(List, key)
                /\ reply.item = List[PosOf(List, key)]
                /\ http.req.payload.estado = Str(<<"x">>) => reply.item.condicion = sLIBRE
                /\ http.req.payload.price = Str(<<"a", "b", "c">>) => reply.item.price = Null

\* C17: a PUT whose status and price are no status and no number was answered
\* 200 with the lot LIBRE and without price, on the database-backed server
MalformedAccepted ==
  /\ IsPut
  /\ http.entry = "api/lotes/[id].js"
  /\ http.req.payload.estado = Str(<<"x">>)
  /\ http.req.payload.price = Str(<<"a", "b", "c">>)
  /\ Len(http.replies) = 1
  /\ http.replies[1].status = 200
  /\ http.replies[1].item = List[PosOf(List, KeyOf(http.req.id))]
  /\ List[PosOf(List, KeyOf(http.req.id))].condicion = sLIBRE
  /\ List[PosOf(List, KeyOf(http.req.id))].price = Null

\* C18: a request whose method is not the one its route permits is answered
\* 405 with an Allow header naming the permitted method, and starts no storage
\* read and no storage write, on every entry point
MethodMismatch ==
  (http.entry # "none" /\ http.req.method # Permitted(http.req.route)) =>
    /\ Len(http.replies) = 1
    /\ http.replies[1].status = 405
    /\ http.replies[1].allow = Permitted(http.req.route)
    /\ http.reads = 0
    /\ http.writes = 0

\* a row whose MZ is not empty after trimming and whose LOTE parses as an integer
ValidRow(row) == Trim(row.MZ) # <<>> /\ ParseInt(Trim(row.LOTE)).t = "num"

\* C19: list() of server.mjs holds one lot for each row whose MZ is not empty
\* after trimming and whose LOTE parses as an integer, in the order of the
\* rows, each lot being what its row alone gives; the other rows are dropped
\* and the request is answered 200
RowIsolation ==
  (http.entry = "server.mjs" /\ http.req.method = "GET" /\ http.req.route = ListRoute
     /\ ~http.failed) =>
    LET valid == SelectSeq(csvRows, ValidRow)
        items == http.replies[1].items
    IN  /\ http.replies[1].status = 200
        /\ Len(http.replies) = 1
        /\ Len(items) = Len(valid)
        /\ \A i \in 1..Len(valid) :
             /\ items[i].mz = ToUpperCase(Trim(valid[i].MZ))
             /\ items[i].lote = ParseInt(Trim(valid[i].LOTE)).m
             /\ <<items[i]>> = csvList(<<valid[i]>>)

\* C19: a file of five rows, the second without MZ and the fourth without
\* LOTE, was listed as B-12, A-07, C-05
MalformedRowsDropped ==
  /\ http.entry = "server.mjs"
  /\ http.req = Request("GET", ListRoute, <<>>, NoPayload)
  /\ csvRows = <<RowB12, RowBlankMz, RowA7, RowNoLote, RowC5>>
  /\ Len(http.replies) = 1
  /\ http.replies[1].status = 200
  /\ [i \in 1..Len(http.replies[1].items) |-> http.replies[1].items[i].id]
       = <<<<"B", "-", "1", "2">>, <<"A", "-", "0", "7">>, <<"C", "-", "0", "5">>>>

\* ------------------------------------------------------------------------
\* The four implementations of toLoteId
\* ------------------------------------------------------------------------

\* the mz handed to toLoteId
MzInputs == {<<"A">>, <<"a">>, <<"B">>, <<" ", "b", " ">>, <<"C", " ">>, <<"m", "z">>}

\* the lote handed to toLoteId
LoteInputs == {0, 1, 5, 7, 12, 100}

IdArgs == {[mz |-> mz, lote |-> lote] : mz \in MzInputs, lote \in LoteInputs}

InitIds ==
  /\ InitApi({<<RowA7, RowB12>>})
  /\ backend = "csv"
  /\ InitOverrides({NoItem}, {TRUE}, {<<>>})
  /\ InitApp
  /\ InitEdge(IdArgs)

\* an implementation returns its string for idArgs
Derive(site, id) ==
  /\ ids[site] = <<>>
  /\ ids' = [ids EXCEPT ![site] = id]
  /\ UNCHANGED <<backend, csvRows, dbTable, now, ops, last, list0, concVars, panelVars,
                 tabVars, appVars, http, idArgs>>

\* toLoteId of server.mjs
ServerToLoteId == Derive("server", toLoteId(idArgs.mz, idArgs.lote))

\* toLoteId of lib/lotesService.mjs
ServiceToLoteId == Derive("service", toLoteIdService(idArgs.mz, idArgs.lote))

\* toLoteId of the legacy App
LegacyToLoteId == Derive("legacy", toLoteIdLegacy(idArgs.mz, idArgs.lote))

\* toLoteId of the current App
AppToLoteId == Derive("app", toLoteIdApp(idArgs.mz, idArgs.lote))

NextIds == ServerToLoteId \/ ServiceToLoteId \/ LegacyToLoteId \/ AppToLoteId

SpecIds == InitIds /\ [][NextIds]_vars

StampTime(text) == CHOOSE t \in 0..MaxClock : toCurrentTimestamp(t) = text

\* C21: a successful update of a lot that an earlier update has stamped
\* leaves a stamp taken from the adapter's clock and strictly newer than the
\* earlier one
MonotoneStamps ==
  (Updated /\ LotBefore.ultimaModificacion.t = "str") =>
    /\ \E t \in 0..MaxClock : LotAfter.ultimaModificacion = Str(toCurrentTimestamp(t))
    /\ StampTime(LotAfter.ultimaModificacion.s) > StampTime(LotBefore.ultimaModificacion.s)

\* C22: for every row of the CSV file that has a key, the lot that list() of
\* the CSV adapter derives from the row and the lot that list() of the
\* database adapter returns once the seed script has loaded the row have the
\* same id, areaM2, price and condicion
BackendsAgree ==
  \A i \in 1..Len(csvRows) :
    RowHasKey(csvRows[i]) =>
      LET fromCsv == mapRowToLote(csvRows[i])
          fromDb == listLotes(seedTable(<<csvRows[i]>>))
      IN  /\ Len(fromDb) = 1
          /\ fromDb[1].id = fromCsv.id
          /\ fromDb[1].areaM2 = fromCsv.areaM2
          /\ fromDb[1].price = fromCsv.price
          /\ fromDb[1].condicion = fromCsv.condicion

\* C23: every lot of list() has a price that is null or not negative
PriceNeverNegative ==
  \A i \in 1..Len(List) :
    List[i].price.t = "null" \/ (List[i].price.t = "num" /\ List[i].price.m >= 0)

\* ------------------------------------------------------------------------
\* The history of the legacy App when local storage already holds lines
\* ------------------------------------------------------------------------

\* the lines that n earlier writes left, the newest first: line i was written
\* i seconds before the tabs opened
OldLines(n) ==
  [i \in 1..n |-> Line(0 - i, <<"A", "-", "0", "7">>, Override(Undef, Str(sLIBRE), Undef))]

\* the histories the tabs may find: none, one line short of the limit, full
InitialHistories == {<<>>, OldLines(HISTORY_LIMIT - 1), OldLines(HISTORY_LIMIT)}

InitHistory ==
  /\ InitApi(ConcFiles)
  /\ InitApp
  /\ InitEdge({ArgsA7})
  /\ backend = "csv"
  /\ InitOverrides({NoItem}, {TRUE}, InitialHistories)

SpecHistory == InitHistory /\ [][NextTabs]_vars

\* C24: every override write puts its line first, keeps the lines before it
\* in their order and drops the oldest when there would be more than 200:
\* after n writes the history holds the lines of the last min(n, 200) writes,
\* the newest first
HistoryRing ==
  /\ [](Len(history) <= 200)
  /\ [][overrideWrites' = overrideWrites + 1 =>
          /\ Len(history') = (IF Len(history) < 200 THEN Len(history) + 1 ELSE 200)
          /\ history'[1].at = now
          /\ \E t \in Tabs :
               overrides'[t] = [overrides[t] EXCEPT
                                  ![history'[1].id] = spread(@, history'[1].patch)]
          /\ \A i \in 2..Len(history') : history'[i] = history[i - 1]]_vars

\* C24: a write found 200 lines: its line is the first and the oldest of the
\* 200 is gone
OldestEvicted ==
  /\ overrideWrites = 1
  /\ Len(history) = 200
  /\ history[1].at = now
  /\ history[2] = OldLines(200)[1]
  /\ history[200] = OldLines(200)[199]

\* ------------------------------------------------------------------------
\* Claims about the drafts of the seller panel (SpecPanel)
\* ------------------------------------------------------------------------

\* the step resolves PUT k, which was for lot id and succeeded or failed
Resolves(k, id, ok) ==
  /\ saves[k].pc = "answered"
  /\ saves'[k].pc = "done"
  /\ saves[k].id = id
  /\ saves[k].ok = ok

\* C25: the draft of a lot appears or changes only when the seller edits the
\* lot and disappears only when a PUT for the lot succeeds; a PUT that
\* succeeds removes the draft and leaves the lot not dirty; a PUT that fails
\* keeps the draft as it was and shows the error of the lot; either way the
\* drafts of the other lots stay as they were
DraftLifecycle ==
  [][\A id \in PanelIds :
       /\ drafts'[id] # drafts[id] =>
            \/ drafts'[id].has /\ saves' = saves /\ rows' = rows
            \/ ~drafts'[id].has /\ \E k \in 1..MaxSaves : Resolves(k, id, TRUE)
       /\ \A k \in 1..MaxSaves :
            /\ Resolves(k, id, TRUE) =>
                 /\ ~drafts'[id].has
                 /\ ~isDirty(Shown(rows, id))'
                 /\ \A other \in PanelIds \ {id} : drafts'[other] = drafts[other]
            /\ Resolves(k, id, FALSE) =>
                 /\ drafts' = drafts
                 /\ error' = Err("save", id)]_vars

\* C25: the PUT for A-07 failed: its error is shown, its draft is kept and
\* dirty, and the draft of B-12 is there too
FailedSaveKeepsDraft ==
  /\ error = Err("save", <<"A", "-", "0", "7">>)
  /\ drafts[<<"A", "-", "0", "7">>].has
  /\ isDirty(Shown(rows, <<"A", "-", "0", "7">>))
  /\ drafts[<<"B", "-", "1", "2">>].has
  /\ \A k \in 1..MaxSaves : ~InFlight(k)

\* C28: when a PUT for a lot succeeds and the draft of the lot is no longer
\* the one that was submitted, the draft stays and the lot is still dirty
LaterEditKept ==
  [][\A id \in PanelIds : \A k \in 1..MaxSaves :
       (Resolves(k, id, TRUE) /\ drafts[id].has /\ saveBody(drafts[id]) # saves[k].body) =>
         /\ drafts'[id] = drafts[id]
         /\ isDirty(Shown(rows, id))']_vars

\* the four price fields of proformas p and q are equal
SamePrices(p, q) ==
  /\ p.precioRegular = q.precioRegular
  /\ p.precioPromocional = q.precioPromocional
  /\ p.descuentoSoles = q.descuentoSoles
  /\ p.descuentoPct = q.descuentoPct

\* C26: for every proforma that recalcProforma has produced and every value of
\* the marker of the field edited last, recalcProforma applied again leaves
\* precioRegular, precioPromocional, descuentoSoles and descuentoPct unchanged
RecalcFixpoint ==
  proformaDirty =>
    \A edited \in {"none", "soles", "pct", "promo"} :
      SamePrices(recalcProforma(proforma, edited, now), proforma)

\* C27: an edit of the validity window to N leaves diasVigencia at N rounded
\* and brought into 1..30, 1 for an empty input or 0, and fechaCaducidad at
\* that many days after the day of the clock at the edit
ExpiryFromEdit ==
  [][(edits' = edits + 1 /\ lastInput'.field = "diasVigencia") =>
       /\ proforma'.diasVigencia =
            Within(MathRound(inputNumber(lastInput'.text)), Whole(1), Whole(30))
       /\ proforma'.fechaCaducidad = (now \div 86400) + proforma'.diasVigencia.n]_vars

\* C27: the window of a proforma opened the day before was set to 45: it is
\* 30 days and ends 30 days after the day of the edit
WindowSetNextDay ==
  /\ lastInput = Input("diasVigencia", <<"4", "5">>)
  /\ proforma.creadoEn = 0
  /\ now = 86400
  /\ proforma.diasVigencia = Whole(30)
  /\ proforma.fechaCaducidad = 31

\* C29: an edit of inicial, separacion, meses, diasVigencia or a text field
\* leaves precioRegular, precioPromocional, descuentoSoles and descuentoPct
\* as they were
OtherEditsKeepPrices ==
  [][(edits' = edits + 1
        /\ lastInput'.field \in {"inicial", "separacion", "meses", "diasVigencia", "nombre"})
       => SamePrices(proforma', proforma)]_vars
\* C30: a proforma that is open and dirty is closed only by a step taken with
\* the discard dialog showing, which hides the dialog and clears
\* proformaDirty: the backdrop, Cerrar and the Escape key leave it open
NoSilentClose ==
  [][(proformaOpen /\ proformaDirty /\ ~proformaOpen') =>
       (proformaConfirmClose /\ ~proformaConfirmClose' /\ ~proformaDirty')]_vars

\* C30: Escape was pressed on an edited proforma and then its closing was
\* requested: the proforma is still open and dirty, the dialog asks
CloseAwaitsConfirmation ==
  /\ lastInput = Input("Escape", <<>>)
  /\ edits > 0
  /\ proformaOpen
  /\ proformaDirty
  /\ proformaConfirmClose
====
